---- MODULE Spec2Model ----
(***************************************************************************)
(* grokchat: the conversation orchestration pipeline.                      *)
(*                                                                         *)
(*   - the Express server (server/index.ts, server/db.ts, ragStore.ts,     *)
(*     memoryProvider.ts): POST /api/chat, POST /api/chat/response,        *)
(*     PATCH /api/messages/:id/tags, POST /api/categories;                 *)
(*   - the React client (src/App.tsx): handleSendMessage, the four         *)
(*     decision handlers of the category suggestion popup and              *)
(*     continueAfterCategorySuggestion, with the values each memoised      *)
(*     callback (useCallback) captured at the render that created it.      *)
(*                                                                         *)
(* Two specifications:                                                     *)
(*   SpecChat  the server's POST /api/chat pipeline, step by step, with    *)
(*             every failure mode of the memory and knowledge              *)
(*             collaborators;                                              *)
(*   Spec      the client orchestration against the server's stores.      *)
(***************************************************************************)
EXTENDS Integers, Sequences, FiniteSets, TLC

(***************************************************************************)
(* Bounds of the model.                                                    *)
(***************************************************************************)
MaxChatReqs == 2        \* POST /api/chat requests handled under SpecChat
MaxSends == 2           \* user messages submitted under Spec
MaxDecisions == 2       \* popup decisions taken under Spec
MaxSelects == 1         \* sidebar category selections under Spec
MaxStoreOps == 3        \* requests to the store endpoints under SpecStore
MaxChatReplies == 1     \* POST /api/chat/response requests handled under SpecChat
MaxSidebarCategories == 3  \* categories shown by the Sidebar under SpecSidebar
MaxSidebarMessages == 2    \* messages the Sidebar reads under SpecSidebar
MaxDeletes == 2            \* messages deleted by the user under SpecManage
MaxCategoryEdits == 2      \* renames and pin toggles by the user under SpecManage

(***************************************************************************)
(* Values.                                                                 *)
(***************************************************************************)
NoId == 0                                   \* null / undefined id
SeedCategories == <<1, 2>>                  \* category rows present at start
NewCategoryId(k) == 10 + k                  \* `focus-${Date.now()}`
DbMsgId(k) == 100 + k                       \* `msg-${Date.now()}-${rand}`
ClientMsgId(n) == n                         \* `user-${createId()}`
AsstMsgId(k) == 50 + k                      \* `assistant-${createId()}`
DefaultNamespace == 0                       \* 'default'
Null == "NULL"                              \* SQL NULL in a text column
DefaultIcon == "Sparkles"
DefaultAccent == "from-grokPurple to-grokBlue"

\* JSON.stringify / JSON.parse of a tag array, and the SQL NULL stored for [].
NullTags == <<"null">>
JsonStringify(tags) == <<"json", tags>>
JsonParse(text) == text[2]
\* index.ts: tags.length > 0 ? JSON.stringify(tags) : null
TagsColumn(tags) == IF Len(tags) > 0 THEN JsonStringify(tags) ELSE NullTags
\* App.tsx: msg.tags ? JSON.parse(msg.tags) : undefined   (undefined read as [])
TagsOfColumn(col) == IF col = NullTags THEN <<>> ELSE JsonParse(col)

VARIABLES
    \* ---- the SQLite stores (server/db.ts)
    dbSessions,      \* Seq of [id, user_id, updated_at]
    dbMessages,      \* Seq of [id, session_id, role, content, timestamp, tags], in insertion order
    dbCategories,    \* the categories table: id -> [title, description, icon, accent, sort_order, pinned]
    dbItems,         \* the category_items table: id -> [category_id, title]
    dbClock,         \* Date.now() on the server
    dbNextMsg,       \* number of message ids generated
    \* ---- the store endpoints handled so far (SpecStore)
    storeLog,        \* Seq of [op, id, arg, status, out]
    \* ---- the POST /api/chat request in progress (SpecChat)
    chatReq,         \* the request being handled and the handler's locals
    chatLog,         \* finished requests: what was asked, what failed, the answer
    mem0Configured,  \* MEM0_API_KEY is set
    memStore,        \* atoms held by the memory collaborator
    ragTables,       \* namespaces that have a kb_ table
    \* ---- React state of App (src/App.tsx)
    messages,                \* Seq of [id, role, content, tags, by]; by: the request that added it
    categories,              \* Seq of category ids
    categoryFields,          \* id -> the other fields of the categories of the list
    isAssistantTyping,
    activeCategoryId,
    sessionId,
    pendingSuggestion,
    pendingMessageContent,
    pendingUserMessageId,
    suggestionLoading,
    pendingGrokMessagesRef,  \* the ref's .current: a transcript, <<>> for null
    pendingToolCallIdRef,    \* the ref's .current: a tool call id, NoId for null
    grokConfigured,
    \* ---- what the memoised callbacks hold from the render that created them
    sendSessionId,           \* handleSendMessage: sessionId
    acceptCont,              \* handleAcceptSuggestion: continueAfterCategorySuggestion
    dismissCont,             \* handleForceClosestCategory, handleDismissSuggestion: the same
    \* ---- handlers in progress, requests in flight
    sends,                   \* handleSendMessage executions, by number
    nSends,
    decs,                    \* popup decisions and their continueAfterCategorySuggestion
    net,                     \* requests sent and not awaited, not yet handled by the server
    catFetch,                \* GET /api/categories responses not yet received
    nSelects,
    nNewCats,                \* categories created by the client
    nAsst,                   \* assistant message ids generated
    calls,                   \* every completion call made so far
    served,                  \* the unawaited requests the server has handled
    \* ---- the Sidebar component (src/components/Sidebar.tsx), under SpecSidebar
    props,                   \* [categories, messages, searchQuery] of the last render
    filtered                 \* the category list the last render displays

dbVars == <<dbSessions, dbMessages, dbCategories, dbClock, dbNextMsg>>
storeVars == <<dbItems, storeLog>>
chatVars == <<chatReq, chatLog, mem0Configured, memStore, ragTables>>
pendingVars == <<pendingSuggestion, pendingMessageContent, pendingUserMessageId,
                 suggestionLoading, pendingGrokMessagesRef, pendingToolCallIdRef>>
closureVars == <<sendSessionId, acceptCont, dismissCont>>
reactVars == <<messages, categories, isAssistantTyping, activeCategoryId, sessionId,
               pendingVars, grokConfigured, closureVars>>
flightVars == <<sends, nSends, decs, net, catFetch, nSelects, nNewCats, nAsst, calls, served>>
sidebarVars == <<props, filtered>>
catVars == <<categoryFields>>
clientVars == <<reactVars, flightVars, sidebarVars, catVars>>

(***************************************************************************)
(* server/db.ts                                                            *)
(***************************************************************************)
RECURSIVE MaxUpdated(_, _)
MaxUpdated(rows, userId) ==
    IF rows = <<>> THEN -1
    ELSE LET rest == MaxUpdated(Tail(rows), userId)
             h == Head(rows)
         IN IF h.user_id = userId /\ h.updated_at > rest THEN h.updated_at ELSE rest

\* SELECT id FROM sessions WHERE user_id = ? ORDER BY updated_at DESC LIMIT 1
ExistingSession(sessions, userId) ==
    LET m == MaxUpdated(sessions, userId)
        idx == { i \in 1..Len(sessions) :
                    sessions[i].user_id = userId /\ sessions[i].updated_at = m }
    IN IF idx = {} THEN NoId
       ELSE sessions[CHOOSE i \in idx : \A j \in idx : i <= j].id

\* a variant that opens a session for every request
getOrCreateSessionAlwaysNew(sessions, userId, now) ==
    LET sid == Len(sessions) + 1
    IN <<Append(sessions, [id |-> sid, user_id |-> userId, updated_at |-> now]), sid>>

\* getOrCreateSession: <<sessions', id>>
getOrCreateSession(sessions, userId, now) ==
    LET existing == ExistingSession(sessions, userId)
    IN IF existing # NoId THEN <<sessions, existing>>
       ELSE LET sid == Len(sessions) + 1
            IN <<Append(sessions, [id |-> sid, user_id |-> userId, updated_at |-> now]), sid>>

\* touchSession
touchSession(sessions, sid, now) ==
    [i \in 1..Len(sessions) |->
        IF sessions[i].id = sid
        THEN [sessions[i] EXCEPT !.updated_at = now]
        ELSE sessions[i]]

\* insertMessage: the row appended to messages
insertMessage(rows, nextMsg, msg) ==
    Append(rows, [id |-> DbMsgId(nextMsg + 1), session_id |-> msg.session_id,
                  role |-> msg.role, content |-> msg.content,
                  timestamp |-> msg.timestamp, tags |-> msg.tags])

\* a variant that adds the new tags to the stored ones
updateMessageTagsAdditive(rows, messageId, tags) ==
    [i \in 1..Len(rows) |->
        IF rows[i].id = messageId
        THEN [rows[i] EXCEPT !.tags =
                TagsColumn(TagsOfColumn(@) \o
                           SelectSeq(TagsOfColumn(tags),
                                     LAMBDA t : \A j \in 1..Len(TagsOfColumn(rows[i].tags)) :
                                                   TagsOfColumn(rows[i].tags)[j] # t))]
        ELSE rows[i]]

\* updateMessageTags: UPDATE messages SET tags = ? WHERE id = ?
updateMessageTags(rows, messageId, tags) ==
    [i \in 1..Len(rows) |->
        IF rows[i].id = messageId THEN [rows[i] EXCEPT !.tags = tags] ELSE rows[i]]

\* the columns of a categories row other than its primary key
CategoryFields(cat) ==
    [title |-> cat.title, description |-> cat.description, icon |-> cat.icon,
     accent |-> cat.accent, sort_order |-> cat.sort_order, pinned |-> cat.pinned]

\* a variant that, on conflict, updates the title and keeps the other columns
upsertCategoryTitleOnly(cats, cat) ==
    [id \in DOMAIN cats \cup {cat.id} |->
        IF id # cat.id THEN cats[id]
        ELSE IF id \in DOMAIN cats THEN [cats[id] EXCEPT !.title = cat.title]
        ELSE CategoryFields(cat)]

\* upsertCategory: INSERT ... ON CONFLICT(id) DO UPDATE SET every other column
upsertCategory(cats, cat) ==
    [id \in DOMAIN cats \cup {cat.id} |->
        IF id = cat.id THEN CategoryFields(cat) ELSE cats[id]]

\* ORDER BY sort_order, id
RECURSIVE SortedIds(_, _)
SortedIds(cats, S) ==
    IF S = {} THEN <<>>
    ELSE LET m == CHOOSE x \in S : \A y \in S :
                     \/ cats[x].sort_order < cats[y].sort_order
                     \/ cats[x].sort_order = cats[y].sort_order /\ x <= y
         IN <<m>> \o SortedIds(cats, S \ {m})

\* getAllCategories: SELECT * FROM categories ORDER BY sort_order, id (the ids)
getAllCategories(cats) == SortedIds(cats, DOMAIN cats)

\* a variant that only ever sets the flag
toggleCategoryPinnedSetsTrue(cats, categoryId) ==
    [cats |-> [id \in DOMAIN cats |->
                 IF id = categoryId THEN [cats[id] EXCEPT !.pinned = 1] ELSE cats[id]],
     out |-> TRUE]

\* toggleCategoryPinned: `current?.pinned ? 0 : 1`, UPDATE, `return newPinned === 1`
toggleCategoryPinned(cats, categoryId) ==
    LET current == IF categoryId \in DOMAIN cats THEN cats[categoryId].pinned ELSE 0
        newPinned == IF current # 0 THEN 0 ELSE 1
    IN [cats |-> [id \in DOMAIN cats |->
                    IF id = categoryId THEN [cats[id] EXCEPT !.pinned = newPinned]
                    ELSE cats[id]],
        out |-> newPinned = 1]

\* Foreign keys are enforced (better-sqlite3 builds SQLite with
\* SQLITE_DEFAULT_FOREIGN_KEYS=1 and db.ts never switches them off): a row
\* that references a missing parent is refused, and ON DELETE CASCADE runs.
SessionExists(sessions, sid) == \E i \in 1..Len(sessions) : sessions[i].id = sid

\* upsertCategoryItem: INSERT ... ON CONFLICT(id) DO UPDATE SET every other
\* column (of which the model keeps category_id and title)
upsertCategoryItem(items, item) ==
    [id \in DOMAIN items \cup {item.id} |->
        IF id = item.id THEN [category_id |-> item.category_id, title |-> item.title]
        ELSE items[id]]

Restrict(f, S) == [x \in S |-> f[x]]

\* a variant whose DELETE leaves the category's items behind
deleteCategoryNoCascade(cats, items, categoryId) ==
    [cats |-> Restrict(cats, DOMAIN cats \ {categoryId}), items |-> items]

\* deleteCategory: DELETE FROM categories WHERE id = ?, and the cascade of the
\* category_items schema (db.ts 46-55)
deleteCategory(cats, items, categoryId) ==
    [cats |-> Restrict(cats, DOMAIN cats \ {categoryId}),
     items |-> Restrict(items, { i \in DOMAIN items : items[i].category_id # categoryId })]

\* a variant that also deletes the reply stored right after a deleted message
deleteMessagesWithReply(rows, messageIds) ==
    LET gone == { i \in 1..Len(rows) :
                    \/ rows[i].id \in messageIds
                    \/ i > 1 /\ rows[i - 1].id \in messageIds /\ rows[i].role = "assistant" }
        F[i \in 0..Len(rows)] ==
            IF i = 0 THEN <<>> ELSE IF i \in gone THEN F[i - 1] ELSE Append(F[i - 1], rows[i])
    IN F[Len(rows)]

\* deleteMessages: DELETE FROM messages WHERE id IN (...)
deleteMessages(rows, messageIds) ==
    SelectSeq(rows, LAMBDA row : row.id \notin messageIds)

\* the orders ORDER BY timestamp <dir> may give the rows at indices I: every
\* arrangement in which the timestamps never go the wrong way (rows of equal
\* timestamp come in either order)
Orderings(rows, I, descending) ==
    { q \in [1..Cardinality(I) -> I] :
        /\ \A a, b \in 1..Cardinality(I) : a # b => q[a] # q[b]
        /\ \A a \in 1..(Cardinality(I) - 1) :
              IF descending THEN rows[q[a]].timestamp >= rows[q[a + 1]].timestamp
              ELSE rows[q[a]].timestamp <= rows[q[a + 1]].timestamp }

\* LIMIT count (a negative count is no limit)
LimitTo(q, count) ==
    IF count < 0 \/ Len(q) <= count THEN q ELSE SubSeq(q, 1, count)

\* a variant that reads the oldest rows first
getRecentMessagesAscending(rows, sid, count) ==
    LET I == { i \in 1..Len(rows) : rows[i].session_id = sid }
    IN { [k \in 1..Len(LimitTo(q, count)) |-> rows[q[k]]] : q \in Orderings(rows, I, FALSE) }

\* getRecentMessages: SELECT * FROM messages WHERE session_id = ?
\* ORDER BY timestamp DESC LIMIT ?   -- the results the query may give
getRecentMessages(rows, sid, count) ==
    LET I == { i \in 1..Len(rows) : rows[i].session_id = sid }
    IN { [k \in 1..Len(LimitTo(q, count)) |-> rows[q[k]]] : q \in Orderings(rows, I, TRUE) }

(***************************************************************************)
(* POST /api/chat (server/index.ts), under SpecChat.                       *)
(*                                                                         *)
(* An utterance is the sequence of phrases it is made of; includes and     *)
(* startsWith look for a trigger phrase in it.                             *)
(***************************************************************************)
Utterances ==
    { <<"hello">>, <<"i prefer", "short answers">>, <<"i'm ", "working on", "x">>,
      <<"please", "remember that", "i like", "tea">> }

Includes(u, phrase) == \E i \in 1..Len(u) : u[i] = phrase
StartsWith(u, phrase) == Len(u) > 0 /\ u[1] = phrase

PreferenceRule(u) ==
    \E p \in {"i prefer", "i'd like", "i like", "don't", "do not",
              "please always", "please never", "going forward"} : Includes(u, p)
ProfileRule(u) ==
    \/ StartsWith(u, "i am ") \/ StartsWith(u, "i'm ")
    \/ Includes(u, "my name is") \/ Includes(u, "call me ")
GoalRule(u) == Includes(u, "working on") \/ Includes(u, "our goal is")
NoteRule(u) ==
    \E p \in {"remember that", "remember this", "note that", "keep in mind"} : Includes(u, p)

Atom(type, u, tags) == [text |-> u, type |-> type, tags |-> tags]

\* candidateMemories, in the order the handler pushes them
candidateMemories(u, tags) ==
    (IF PreferenceRule(u) THEN <<Atom("preference", u, tags)>> ELSE <<>>)
    \o (IF ProfileRule(u) THEN <<Atom("profile", u, tags)>> ELSE <<>>)
    \o (IF GoalRule(u) THEN <<Atom("goal", u, tags)>> ELSE <<>>)
    \o (IF NoteRule(u) THEN <<Atom("history", u, tags)>> ELSE <<>>)

\* request bodies: userId, the messages array (roles and utterance ids), tags
ChatUserIds == {"demo-user", ""}
ChatTagSets == {<<>>, <<2, 1>>}
ChatMessages(k) ==
    { <<>>,
      <<[role |-> "system", content |-> 0]>>,
      <<[role |-> "system", content |-> 0], [role |-> "user", content |-> k]>>,
      <<[role |-> "user", content |-> k], [role |-> "assistant", content |-> 0]>> }

\* [...messages].reverse().find(m => m.role === 'user'): its index, or 0
LatestUserIndex(msgs) ==
    LET idx == { i \in 1..Len(msgs) : msgs[i].role = "user" }
    IN IF idx = {} THEN 0 ELSE CHOOSE i \in idx : \A j \in idx : j <= i

\* a variant that does not look at userId
ChatValidMessagesOnly(userId, msgs) ==
    /\ Len(msgs) > 0
    /\ LatestUserIndex(msgs) # 0

\* the two 400 guards of POST /api/chat
ChatValid(userId, msgs) ==
    /\ userId # ""
    /\ Len(msgs) > 0
    /\ LatestUserIndex(msgs) # 0

IdleChatReq ==
    [pc |-> "idle", n |-> 0, userId |-> "", content |-> 0, text |-> <<>>, tags |-> <<>>,
     candidates |-> <<>>, sessionId |-> NoId, userMsgId |-> NoId,
     relevant |-> {}, ragDocs |-> <<>>, calls |-> {}, failed |-> {}, status |-> 0]

\* The statements of the handler after its 400 guards and getOrCreateSession, in
\* the order they are written: the heuristics (71-131), insertMessage (136),
\* saveUserMemories (145), getRelevantMemories (147), searchRelevantDocs (150).
ChatOrderSwapped == <<"classify", "memAdd", "insert", "memSearch", "rag">>
ChatOrder == <<"classify", "insert", "memAdd", "memSearch", "rag">>

ChatAfter(stage) ==
    LET i == CHOOSE j \in 1..Len(ChatOrder) : ChatOrder[j] = stage
    IN IF i = Len(ChatOrder) THEN "done" ELSE ChatOrder[i + 1]

ChatFinish(req, status) ==
    /\ chatReq' = [req EXCEPT !.pc = "done", !.status = status]
    /\ chatLog' = Append(chatLog, [n |-> req.n, status |-> status, content |-> req.content,
                                   userMsgId |-> req.userMsgId, sessionId |-> req.sessionId,
                                   calls |-> req.calls, failed |-> req.failed,
                                   usedMemories |-> req.relevant, ragDocs |-> req.ragDocs])

\* The handler moves on to its next statement, or answers 200 after the last.
ChatContinue(req, stage) ==
    IF ChatAfter(stage) = "done"
    THEN ChatFinish(req, 200)
    ELSE /\ chatReq' = [req EXCEPT !.pc = ChatAfter(stage)]
         /\ chatLog' = chatLog

\* Date.now() read by a handler: the millisecond of the previous read or a later one
Tick == {dbClock, dbClock + 1}

\* the handler has answered
StoreAnswer(op, id, arg, status, out) ==
    storeLog' = Append(storeLog, [op |-> op, id |-> id, arg |-> arg,
                                  status |-> status, out |-> out])

\* POST /api/chat/response (index.ts 165-185), for requests naming a session of
\* `sids` while fewer than `bound` store requests have been answered
PersistReply(sids, bound) ==
    /\ Len(storeLog) < bound
    /\ \E sid \in sids, content \in {"", "reply"}, now \in Tick :
         IF sid = NoId \/ content = ""
         THEN /\ StoreAnswer("response", sid, content, 400, NoId)
              /\ UNCHANGED dbVars
         ELSE IF ~SessionExists(dbSessions, sid)
         THEN /\ StoreAnswer("response", sid, content, 500, NoId)
              /\ UNCHANGED dbVars
         ELSE /\ dbMessages' = insertMessage(dbMessages, dbNextMsg,
                                  [session_id |-> sid, role |-> "assistant",
                                   content |-> content, timestamp |-> now,
                                   tags |-> NullTags])
              /\ dbSessions' = touchSession(dbSessions, sid, now)
              /\ dbNextMsg' = dbNextMsg + 1
              /\ dbClock' = now
              /\ StoreAnswer("response", sid, content, 200, DbMsgId(dbNextMsg + 1))
              /\ UNCHANGED dbCategories
    /\ UNCHANGED <<dbItems, chatVars, clientVars>>

\* the persist-reply requests that reach the server between and during submit
\* requests: without a sessionId, or with the session of the first user
ChatReplySessionIds == {NoId, 1}
ChatResponse == PersistReply(ChatReplySessionIds, MaxChatReplies)

\* Lines 56-69: the two 400 guards, then getOrCreateSession.
ChatReceive ==
    /\ UNCHANGED <<storeVars, sidebarVars, catVars>>
    /\ UNCHANGED clientVars
    /\ chatReq.pc \in {"idle", "done"}
    /\ Len(chatLog) < MaxChatReqs
    /\ \E userId \in ChatUserIds, tags \in ChatTagSets, text \in Utterances :
       \E body \in ChatMessages(Len(chatLog) + 1) :
          LET n == Len(chatLog) + 1
              fresh == [IdleChatReq EXCEPT !.n = n, !.userId = userId]
          IN
          IF ~ChatValid(userId, body)
          THEN /\ ChatFinish(fresh, 400)
               /\ UNCHANGED dbVars
          ELSE LET got == getOrCreateSession(dbSessions, userId, dbClock + 1)
               IN /\ dbSessions' = got[1]
                  /\ dbClock' = dbClock + 1
                  /\ chatReq' = [fresh EXCEPT
                                    !.pc = ChatOrder[1],
                                    !.content = body[LatestUserIndex(body)].content,
                                    !.text = text, !.tags = tags, !.sessionId = got[2]]
                  /\ chatLog' = chatLog
                  /\ UNCHANGED <<dbMessages, dbCategories, dbNextMsg>>
    /\ UNCHANGED <<mem0Configured, memStore, ragTables>>

\* Lines 71-131: the memory heuristics fill candidateMemories.
ChatClassify ==
    /\ UNCHANGED <<storeVars, sidebarVars, catVars>>
    /\ UNCHANGED clientVars
    /\ chatReq.pc = "classify"
    /\ ChatContinue([chatReq EXCEPT
                        !.candidates = candidateMemories(chatReq.text, chatReq.tags)],
                    "classify")
    /\ UNCHANGED <<dbVars, mem0Configured, memStore, ragTables>>

\* Lines 133-143: insertMessage of the user message (first statement of the try).
ChatInsert ==
    /\ UNCHANGED <<storeVars, sidebarVars, catVars>>
    /\ UNCHANGED clientVars
    /\ chatReq.pc = "insert"
    /\ dbMessages' = insertMessage(dbMessages, dbNextMsg,
                         [session_id |-> chatReq.sessionId, role |-> "user",
                          content |-> chatReq.content, timestamp |-> dbClock + 1,
                          tags |-> TagsColumn(chatReq.tags)])
    /\ dbNextMsg' = dbNextMsg + 1
    /\ dbSessions' = touchSession(dbSessions, chatReq.sessionId, dbClock + 1)
    /\ dbClock' = dbClock + 1
    /\ ChatContinue([chatReq EXCEPT !.userMsgId = DbMsgId(dbNextMsg + 1)], "insert")
    /\ UNCHANGED <<dbCategories, mem0Configured, memStore, ragTables>>

\* Line 145, memoryProvider.ts saveUserMemories: no call without a client or
\* without atoms; a rejected mem0.add is caught and logged.
ChatMemAdd ==
    /\ UNCHANGED <<storeVars, sidebarVars, catVars>>
    /\ UNCHANGED clientVars
    /\ chatReq.pc = "memAdd"
    /\ IF ~mem0Configured \/ Len(chatReq.candidates) = 0
       THEN /\ ChatContinue(chatReq, "memAdd")
            /\ memStore' = memStore
       ELSE \E ok \in BOOLEAN :
            /\ ChatContinue([chatReq EXCEPT
                               !.calls = @ \cup {"add"},
                               !.failed = IF ok THEN @ ELSE @ \cup {"add"}],
                            "memAdd")
            /\ memStore' = IF ok
                           THEN memStore \cup { chatReq.candidates[i] :
                                                  i \in 1..Len(chatReq.candidates) }
                           ELSE memStore
    /\ UNCHANGED <<dbVars, mem0Configured, ragTables>>

\* memoryProvider.ts getRelevantMemories, once a client exists: [] when mem0.search
\* rejects, otherwise the collaborator's items that carry a text.
getRelevantMemories(store, tags, ok) ==
    IF ok THEN { m \in store : Len(m.text) > 0 } ELSE {}

\* Line 147: getRelevantMemories; [] without a client.
ChatMemSearch ==
    /\ UNCHANGED <<storeVars, sidebarVars, catVars>>
    /\ UNCHANGED clientVars
    /\ chatReq.pc = "memSearch"
    /\ IF ~mem0Configured
       THEN ChatContinue(chatReq, "memSearch")
       ELSE \E ok \in BOOLEAN :
            ChatContinue([chatReq EXCEPT
                            !.calls = @ \cup {"search"},
                            !.failed = IF ok THEN @ ELSE @ \cup {"search"},
                            !.relevant = getRelevantMemories(memStore, chatReq.tags, ok)],
                         "memSearch")
    /\ UNCHANGED <<dbVars, mem0Configured, memStore, ragTables>>

\* What can go wrong in searchRelevantDocs (ragStore.ts): lancedb.connect or
\* db.tableNames reject outside its try block, openTable/query reject inside it.
RagOutcomes == {"ok", "connect", "tableNames", "query"}

\* What a kb_ table holds: the documents of its namespace.
RagTableSize == 6
RagTable(namespace) == [i \in 1..RagTableSize |-> [text |-> namespace]]

\* table.query().limit(k).toArray()
Limit(rows, k) == IF Len(rows) > k THEN SubSeq(rows, 1, k) ELSE rows

\* searchRelevantDocs(namespace, query, k): whether it throws, the documents if not
searchRelevantDocs(tables, namespace, k, outcome) ==
    IF outcome \in {"connect", "tableNames"} THEN [threw |-> TRUE, docs |-> <<>>]
    ELSE IF namespace \notin tables THEN [threw |-> FALSE, docs |-> <<>>]
    ELSE IF outcome = "query" THEN [threw |-> FALSE, docs |-> <<>>]
    ELSE [threw |-> FALSE, docs |-> Limit(RagTable(namespace), k)]

RagK == 5

\* The catch block of the handler (158-161): log, answer 500. The variant also
\* takes back the row the request inserted.
ChatCatchRollback(req) ==
    /\ ChatFinish(req, 500)
    /\ dbMessages' = SelectSeq(dbMessages, LAMBDA row : row.id # req.userMsgId)
    /\ UNCHANGED <<dbSessions, dbCategories, dbClock, dbNextMsg>>

ChatCatch(req) ==
    /\ ChatFinish(req, 500)
    /\ UNCHANGED dbVars

\* Lines 149-157: namespace = tags[0] ?? 'default', searchRelevantDocs.
ChatRag ==
    /\ UNCHANGED <<storeVars, sidebarVars, catVars>>
    /\ UNCHANGED clientVars
    /\ chatReq.pc = "rag"
    /\ \E outcome \in RagOutcomes :
         LET namespace == IF Len(chatReq.tags) > 0 THEN chatReq.tags[1] ELSE DefaultNamespace
             found == searchRelevantDocs(ragTables, namespace, RagK, outcome)
             req == [chatReq EXCEPT !.calls = @ \cup {"rag"},
                                    !.failed = IF outcome = "ok" THEN @ ELSE @ \cup {outcome}]
         IN IF found.threw
            THEN ChatCatch(req)
            ELSE /\ ChatContinue([req EXCEPT !.ragDocs = found.docs], "rag")
                 /\ UNCHANGED dbVars
    /\ UNCHANGED <<mem0Configured, memStore, ragTables>>

(***************************************************************************)
(* The client: src/App.tsx.                                                *)
(***************************************************************************)
EmptyString == -1                           \* '' used as a category id

NoSuggestion == [some |-> FALSE, type |-> "", existingCategoryId |-> NoId, newCategory |-> FALSE]

\* The arguments of a suggest_category tool call the collaborator may send:
\* an existing category, an existing category without its id, a new category.
Suggestions ==
    { [some |-> TRUE, type |-> "existing", existingCategoryId |-> 2, newCategory |-> FALSE],
      [some |-> TRUE, type |-> "existing", existingCategoryId |-> NoId, newCategory |-> FALSE],
      [some |-> TRUE, type |-> "new", existingCategoryId |-> NoId, newCategory |-> TRUE] }

SuggestCall(sug) == [name |-> "suggest_category", args |-> sug]
CreateCall == [name |-> "create_context_category", args |-> NoSuggestion]
NewSuggestion == CHOOSE sug \in Suggestions : sug.type = "new"

\* tools that exclude each other: suggest_category alone for an untagged message
ToolsOfferedExclusive(shouldAutoTag) ==
    IF shouldAutoTag THEN {"suggest_category"} ELSE {"create_context_category"}

\* The tools of the first completion call (App.tsx 377-379).
ToolsOffered(shouldAutoTag) ==
    IF shouldAutoTag THEN {"suggest_category", "create_context_category"}
    ELSE {"create_context_category"}

\* tool_calls of a completion response, which the client takes as they come
\* (394-420 dispatch on the name alone): at least one call under tool_choice
\* 'required' (shouldAutoTag); under 'auto' none, one or several, and the
\* collaborator may name a tool the request did not offer.
ToolCallBatches(shouldAutoTag) ==
    IF shouldAutoTag
    THEN { <<SuggestCall(sug)>> : sug \in Suggestions }
         \cup { <<CreateCall>>, <<CreateCall, SuggestCall(NewSuggestion)>>,
                <<SuggestCall(NewSuggestion), CreateCall>> }
    ELSE { <<>>, <<CreateCall>>, <<SuggestCall(NewSuggestion)>> }

ToolCallId(n, i) == 10 * n + i              \* toolCall.id of call i answered to send n

\* grokMessages of send n (App.tsx 359-371): the system prompt with memory and
\* knowledge, the trimmed conversation, the user's content.
GrokMessages(n) == <<[role |-> "prompt", content |-> n, tool_call_id |-> NoId]>>

\* followUpMessages (App.tsx 853-857 and 485-489)
FollowUpMessages(transcript, toolCallId, categoryId) ==
    transcript \o <<[role |-> "assistant", content |-> 0, tool_call_id |-> NoId],
                    [role |-> "tool", content |-> categoryId, tool_call_id |-> toolCallId]>>

Range(seq) == { seq[i] : i \in 1..Len(seq) }
First(seq, default) == IF Len(seq) > 0 THEN seq[1] ELSE default

\* setMessages(prev => prev.map(msg => msg.id === id ? {...msg, tags} : msg))
\* iconMap[cat.icon] || Sparkles (App.tsx 33-51, 130-133): the icon shown
IconNames == {"Sparkles", "Brain"}
IconOf(name) == IF name \in IconNames THEN name ELSE DefaultIcon

\* a category of GET /api/categories (index.ts 201-214) as the client keeps it
ClientCategory(row) ==
    [title |-> row.title, description |-> row.description, icon |-> IconOf(row.icon),
     accent |-> row.accent, sort_order |-> row.sort_order, pinned |-> row.pinned = 1]

\* the category handleAcceptSuggestion builds from a suggestion (App.tsx 766-773)
NewClientCategory ==
    [title |-> "new", description |-> Null, icon |-> DefaultIcon, accent |-> "accent",
     sort_order |-> 0, pinned |-> FALSE]

WithCategory(fields, id, cat) ==
    [c \in DOMAIN fields \cup {id} |-> IF c = id THEN cat ELSE fields[c]]

SetTags(msgs, id, tags) ==
    [i \in 1..Len(msgs) |-> IF msgs[i].id = id THEN [msgs[i] EXCEPT !.tags = tags] ELSE msgs[i]]

AssistantMessage(k, text, tags, by) ==
    [id |-> AsstMsgId(k), role |-> "assistant", content |-> text, tags |-> tags, by |-> by]

\* continueAfterCategorySuggestion as created by the render that follows this
\* step: its dependencies are all it reads from the render.
ContNow == [pumid |-> pendingUserMessageId', sid |-> sessionId']
\* continueAfterCategorySuggestion of the first render, which
\* handleSelectExistingCategory (dependencies []) keeps for ever.
FirstRenderCont == [pumid |-> NoId, sid |-> NoId]

\* The render that follows a step: every useCallback whose dependencies changed
\* is created again and captures that render's values.
\*   handleSendMessage        [categories, grokConfigured, messages, activeCategoryId]
\*   handleAcceptSuggestion   [pendingSuggestion, pendingUserMessageId, categories]
\*   handleForceClosestCategory, handleDismissSuggestion   [categories]
Render(messagesSet, categoriesSet, suggestionSet, activeSet) ==
    /\ sendSessionId' = IF messagesSet \/ categoriesSet \/ activeSet
                        THEN sessionId' ELSE sendSessionId
    /\ acceptCont' = IF suggestionSet \/ categoriesSet
                        \/ pendingUserMessageId' # pendingUserMessageId
                     THEN ContNow ELSE acceptCont
    /\ dismissCont' = IF categoriesSet THEN ContNow ELSE dismissCont

IdleSend ==
    [pc |-> "idle", content |-> 0, tags |-> <<>>, shouldAutoTag |-> FALSE, cats |-> <<>>,
     effectiveTags |-> <<>>, latestUser |-> 0, sid |-> NoId, dbUserMsgId |-> NoId,
     row |-> NoId, batch |-> <<>>, idx |-> 0, text |-> "", newCat |-> NoId]

\* conversationalMessages (275-283) and the latest user message of
\* completionMessages, which POST /api/chat will store: its content, 0 if none.
LatestUserContent(history, active) ==
    LET conv == SelectSeq(history, LAMBDA m : active = NoId \/ active \in Range(m.tags))
        i == LatestUserIndex(conv)
    IN IF i = 0 THEN 0 ELSE conv[i].content

ComposerChoices == {SeedCategories[2]}  \* the categories picked as tags in the composer

\* ChatInput.submitMessage (disabled = isAssistantTyping; Enter in the textarea
\* submits, and the popup's overlay takes neither the focus nor the keyboard)
\* and handleSendMessage up to its fetch of /api/chat (238-325).
Send ==
    /\ UNCHANGED <<storeVars, sidebarVars, catVars>>
    /\ ~isAssistantTyping
    /\ nSends < MaxSends
    /\ \E tags \in {<<>>} \cup { <<c>> : c \in Range(categories) \cap ComposerChoices } :
         LET n == nSends + 1
             userMessage == [id |-> ClientMsgId(n), role |-> "user", content |-> n,
                             tags |-> <<>>, by |-> <<"user", n>>]
             nextHistory == Append(messages, userMessage)
         IN /\ messages' = nextHistory
            /\ isAssistantTyping' = TRUE
            /\ nSends' = n
            /\ sends' = [sends EXCEPT ![n] =
                  [IdleSend EXCEPT
                     !.pc = "chat", !.content = n, !.tags = tags,
                     !.shouldAutoTag = (Len(tags) = 0 /\ Len(categories) > 0),
                     !.cats = categories,
                     !.effectiveTags = IF activeCategoryId # NoId
                                       THEN <<activeCategoryId>> ELSE tags,
                     !.latestUser = LatestUserContent(nextHistory, activeCategoryId),
                     !.sid = sendSessionId]]
    /\ UNCHANGED <<categories, activeCategoryId, sessionId, pendingVars, grokConfigured>>
    /\ Render(TRUE, FALSE, FALSE, FALSE)
    /\ UNCHANGED <<decs, net, catFetch, nSelects, nNewCats, nAsst, calls, served>>
    /\ UNCHANGED <<dbVars, chatVars>>

\* A completion call: who made it, the transcript, the tools offered.
Call(by, kind, transcript, tools) ==
    [by |-> by, kind |-> kind, transcript |-> transcript, tools |-> tools]

\* a catch block that gives the fallback reply the composer's tags
SendCatchComposerTags(n, h) ==
    LET fallbackTags == IF Len(h.tags) > 0 THEN h.tags
                        ELSE IF Len(h.cats) > 0 THEN <<h.cats[1]>> ELSE <<>>
    IN /\ IF Len(h.cats) = 0
          THEN UNCHANGED <<messages, nAsst>>
          ELSE /\ messages' = Append(SetTags(messages, ClientMsgId(n), fallbackTags),
                                     AssistantMessage(nAsst + 1, "fallback", h.tags, <<"send", n>>))
               /\ nAsst' = nAsst + 1
       /\ isAssistantTyping' = FALSE
       /\ sends' = [sends EXCEPT ![n] = [h EXCEPT !.pc = "caught"]]
       /\ UNCHANGED <<categories, activeCategoryId, pendingVars, grokConfigured>>
       /\ Render(Len(h.cats) # 0, FALSE, FALSE, FALSE)
       /\ UNCHANGED <<decs, net, catFetch, nSelects, nNewCats>>

\* The catch and finally blocks of handleSendMessage (556-577):
\* synthesizeAssistantReply reads category.items and throws on undefined, which
\* leaves the catch block before it changes anything.  The handler's position
\* afterwards is "caught": it ended through its catch block.
SendCatch(n, h) ==
    LET fallbackTags == IF Len(h.tags) > 0 THEN h.tags
                        ELSE IF Len(h.cats) > 0 THEN <<h.cats[1]>> ELSE <<>>
    IN /\ IF Len(h.cats) = 0
          THEN UNCHANGED <<messages, nAsst>>
          ELSE /\ messages' = Append(SetTags(messages, ClientMsgId(n), fallbackTags),
                                     AssistantMessage(nAsst + 1, "fallback", fallbackTags, <<"send", n>>))
               /\ nAsst' = nAsst + 1
       /\ isAssistantTyping' = FALSE
       /\ sends' = [sends EXCEPT ![n] = [h EXCEPT !.pc = "caught"]]
       /\ UNCHANGED <<categories, activeCategoryId, pendingVars, grokConfigured>>
       /\ Render(Len(h.cats) # 0, FALSE, FALSE, FALSE)
       /\ UNCHANGED <<decs, net, catFetch, nSelects, nNewCats>>

\* requests the client sends without awaiting them
PatchTags(id, tags, by) == [op |-> "patch", id |-> id, tags |-> tags, content |-> "", by |-> by]
PostResponse(sid, text, tags, by) ==
    [op |-> "response", id |-> sid, tags |-> tags, content |-> text, by |-> by]

\* Lines 512-555 and the finally block: resolved tags, the tag update of the
\* user message, the assistant message and its persistence.
SendReply(n, h, text) ==
    LET resolvedTags == IF Len(h.tags) = 0 /\ Len(h.cats) > 0 THEN <<h.cats[1]>> ELSE h.tags
        patch == IF h.dbUserMsgId # NoId /\ Len(resolvedTags) > 0
                 THEN {PatchTags(h.dbUserMsgId, resolvedTags, <<"send", n>>)} ELSE {}
        post == IF h.sid # NoId
                THEN {PostResponse(h.sid, text, resolvedTags, <<"send", n>>)} ELSE {}
    IN /\ messages' = Append(SetTags(messages, ClientMsgId(n), resolvedTags),
                             AssistantMessage(nAsst + 1, text, resolvedTags, <<"send", n>>))
       /\ nAsst' = nAsst + 1
       /\ net' = net \cup patch \cup post
       /\ isAssistantTyping' = FALSE
       /\ sends' = [sends EXCEPT ![n] = [h EXCEPT !.pc = "done", !.text = text]]
       /\ UNCHANGED <<categories, activeCategoryId, pendingVars, grokConfigured>>
       /\ Render(TRUE, FALSE, FALSE, FALSE)
       /\ UNCHANGED <<decs, catFetch, nSelects, nNewCats>>

\* a suggest_category branch that stores the pending state and goes on to the
\* reply instead of returning
SendSuspendGoesOn(n, h, i) ==
    /\ pendingSuggestion' = h.batch[i].args
    /\ pendingMessageContent' = h.content
    /\ pendingUserMessageId' = ClientMsgId(n)
    /\ pendingGrokMessagesRef' = GrokMessages(n)
    /\ pendingToolCallIdRef' = ToolCallId(n, i)
    /\ isAssistantTyping' = FALSE
    /\ sends' = [sends EXCEPT ![n] = [h EXCEPT !.pc = "suspended", !.idx = i]]
    /\ messages' = Append(messages, AssistantMessage(nAsst + 1, "reply", <<>>, <<"send", n>>))
    /\ nAsst' = nAsst + 1
    /\ UNCHANGED <<categories, activeCategoryId, suggestionLoading, grokConfigured>>
    /\ Render(TRUE, FALSE, TRUE, FALSE)
    /\ UNCHANGED <<decs, net, catFetch, nSelects, nNewCats>>

\* The suggest_category branch (397-418): store the pending state and return.
SendSuspend(n, h, i) ==
    /\ pendingSuggestion' = h.batch[i].args
    /\ pendingMessageContent' = h.content
    /\ pendingUserMessageId' = ClientMsgId(n)
    /\ pendingGrokMessagesRef' = GrokMessages(n)
    /\ pendingToolCallIdRef' = ToolCallId(n, i)
    /\ isAssistantTyping' = FALSE
    /\ sends' = [sends EXCEPT ![n] = [h EXCEPT !.pc = "suspended", !.idx = i]]
    /\ UNCHANGED <<messages, categories, activeCategoryId, suggestionLoading, grokConfigured>>
    /\ Render(FALSE, FALSE, TRUE, FALSE)
    /\ UNCHANGED <<decs, net, catFetch, nSelects, nNewCats, nAsst>>

\* The create_context_category branch up to its first await (420-453).
SendCreate(n, h, i) ==
    /\ categories' = Append(categories, NewCategoryId(nNewCats + 1))
    /\ nNewCats' = nNewCats + 1
    /\ sends' = [sends EXCEPT ![n] =
                   [h EXCEPT !.pc = "create", !.idx = i, !.newCat = NewCategoryId(nNewCats + 1)]]
    /\ UNCHANGED <<messages, isAssistantTyping, activeCategoryId, pendingVars, grokConfigured>>
    /\ Render(FALSE, TRUE, FALSE, FALSE)
    /\ UNCHANGED <<decs, net, catFetch, nSelects, nAsst>>

\* a loop that passes over a suggestion when a later call of the batch remains
SendLoopPastSuggest(n, h, i, text) ==
    IF i > Len(h.batch) THEN SendReply(n, h, text)
    ELSE IF h.batch[i].name = "suggest_category"
         THEN IF i < Len(h.batch) THEN SendCreate(n, h, i + 1) ELSE SendSuspend(n, h, i)
    ELSE SendCreate(n, h, i)

\* The tool call loop (394-507) from call i on, as far as its next await.
SendLoop(n, h, i, text) ==
    IF i > Len(h.batch) THEN SendReply(n, h, text)
    ELSE IF h.batch[i].name = "suggest_category" THEN SendSuspend(n, h, i)
    ELSE SendCreate(n, h, i)

\* POST /api/chat as the client sees it, the memory and knowledge stores
\* answering: 400 without a user message, 200 otherwise.
ServeChat(latestUser, tags) ==
    IF latestUser = 0
    THEN [status |-> 400, sessions |-> dbSessions, rows |-> dbMessages,
          sessionId |-> NoId, userMsgId |-> NoId]
    ELSE LET got == getOrCreateSession(dbSessions, "demo-user", dbClock + 1)
             rows == insertMessage(dbMessages, dbNextMsg,
                        [session_id |-> got[2], role |-> "user", content |-> latestUser,
                         timestamp |-> dbClock + 2, tags |-> TagsColumn(tags)])
         IN [status |-> 200,
             sessions |-> touchSession(got[1], got[2], dbClock + 2), rows |-> rows,
             sessionId |-> got[2], userMsgId |-> rows[Len(rows)].id]

\* The response of /api/chat arrives (327-344); then either the first completion
\* call (375-391) or, without an API key, the synthesized reply (508-510).
SendChatReturn(n) ==
    /\ UNCHANGED <<storeVars, sidebarVars, catVars>>
    /\ sends[n].pc = "chat"
    /\   LET h0 == sends[n]
             res == ServeChat(h0.latestUser, h0.effectiveTags)
             ok == res.status = 200
             h == [h0 EXCEPT !.dbUserMsgId = IF ok THEN res.userMsgId ELSE NoId,
                             !.row = res.userMsgId,
                             !.sid = IF ok THEN res.sessionId ELSE h0.sid]
         IN /\ dbSessions' = res.sessions
            /\ dbMessages' = res.rows
            /\ dbNextMsg' = IF res.status = 400 THEN dbNextMsg ELSE dbNextMsg + 1
            /\ dbClock' = IF res.status = 400 THEN dbClock ELSE dbClock + 2
            /\ UNCHANGED dbCategories
            /\ sessionId' = IF ok THEN res.sessionId ELSE sessionId
            /\ IF grokConfigured
               THEN /\ calls' = calls \cup {Call(<<"send", n>>, "first", GrokMessages(n),
                                                  ToolsOffered(h.shouldAutoTag))}
                    /\ sends' = [sends EXCEPT ![n] = [h EXCEPT !.pc = "complete1"]]
                    /\ UNCHANGED <<messages, categories, isAssistantTyping, activeCategoryId,
                                   pendingVars, grokConfigured>>
                    /\ Render(FALSE, FALSE, FALSE, FALSE)
                    /\ UNCHANGED <<decs, net, catFetch, nSelects, nNewCats, nAsst>>
               ELSE /\ calls' = calls
                    /\ IF Len(h.cats) = 0
                       THEN SendCatch(n, h)
                       ELSE SendReply(n, h, "synthesized")
    /\ UNCHANGED <<nSends, served, chatVars>>

\* The first completion call returns or throws (382-394).
SendCompleteReturn(n) ==
    /\ UNCHANGED <<storeVars, sidebarVars, catVars>>
    /\ sends[n].pc = "complete1"
    /\ UNCHANGED <<sessionId, calls, served, nSends>>
    /\ UNCHANGED <<dbVars, chatVars>>
    /\ \/ SendCatch(n, sends[n])
       \/ \E batch \in ToolCallBatches(sends[n].shouldAutoTag), text \in {"", "reply"} :
            /\ Len(batch) > 0 => text = "reply"
            /\ SendLoop(n, [sends[n] EXCEPT !.batch = batch], 1, text)

\* POST /api/categories (index.ts 217-229) past its 400 guard: the row the
\* handler builds from the body, `x || default` for every optional field ('' and
\* 0 stand for a missing or falsy field).
CategoryOfBody(body) ==
    [id |-> body.id, title |-> body.title,
     description |-> IF body.description = "" THEN Null ELSE body.description,
     icon |-> IF body.icon = "" THEN DefaultIcon ELSE body.icon,
     accent |-> IF body.accent = "" THEN DefaultAccent ELSE body.accent,
     sort_order |-> body.sort_order, pinned |-> body.pinned]

\* the body the client posts for a category it created (App.tsx 443-453, 780-790)
NewCategoryBody(id) ==
    [id |-> id, title |-> "new", description |-> "", icon |-> "", accent |-> "accent",
     sort_order |-> 0, pinned |-> 0]

ServeUpsertCategory(id) == upsertCategory(dbCategories, CategoryOfBody(NewCategoryBody(id)))

\* The awaited POST of the new category returns or fails (442-469); then the
\* follow-up completion call is made (471-499).
SendCreateReturn(n) ==
    /\ UNCHANGED <<storeVars, sidebarVars, catVars>>
    /\ sends[n].pc = "create"
    /\ \E ok \in BOOLEAN :
         dbCategories' = IF ok THEN ServeUpsertCategory(sends[n].newCat) ELSE dbCategories
    /\ calls' = calls \cup
         {Call(<<"send", n>>, "followup",
               FollowUpMessages(GrokMessages(n), ToolCallId(n, sends[n].idx), sends[n].newCat),
               {})}
    /\ sends' = [sends EXCEPT ![n].pc = "complete2"]
    /\ UNCHANGED <<reactVars, nSends, decs, net, catFetch, nSelects, nNewCats, nAsst, served>>
    /\ UNCHANGED <<dbSessions, dbMessages, dbClock, dbNextMsg, chatVars>>

\* The follow-up completion of the create branch returns or throws (492-502);
\* the loop goes on with the next tool call.
SendFollowUpReturn(n) ==
    /\ UNCHANGED <<storeVars, sidebarVars, catVars>>
    /\ sends[n].pc = "complete2"
    /\ UNCHANGED <<sessionId, calls, served, nSends>>
    /\ UNCHANGED <<dbVars, chatVars>>
    /\ \/ SendCatch(n, sends[n])
       \/ SendLoop(n, sends[n], sends[n].idx + 1, "reply")

(***************************************************************************)
(* The category suggestion popup (CategorySuggestionPopup.tsx) and the      *)
(* four decision handlers (App.tsx 757-819).                               *)
(***************************************************************************)
NewDecision(kind) ==
    [kind |-> kind, pc |-> "click", categoryId |-> NoId, cont |-> FirstRenderCont,
     pending |-> pendingToolCallIdRef, toolCallId |-> NoId, outcome |-> ""]

\* The popup is rendered while pendingSuggestion is set; its buttons, the X
\* included, are rendered while isLoading (suggestionLoading) is false.
PopupButtons ==
    /\ pendingSuggestion.some
    /\ ~suggestionLoading
    /\ Len(decs) < MaxDecisions

\* a finally block that clears the popup and leaves the rest of the pending state
ClearSuggestionOnly ==
    /\ pendingSuggestion' = NoSuggestion
    /\ suggestionLoading' = FALSE
    /\ UNCHANGED <<pendingMessageContent, pendingUserMessageId,
                   pendingGrokMessagesRef, pendingToolCallIdRef>>

\* The finally block of continueAfterCategorySuggestion (894-903), but its
\* setAssistantTyping(false).
ClearPending ==
    /\ pendingSuggestion' = NoSuggestion
    /\ suggestionLoading' = FALSE
    /\ pendingMessageContent' = NoId
    /\ pendingUserMessageId' = NoId
    /\ pendingGrokMessagesRef' = <<>>
    /\ pendingToolCallIdRef' = NoId

\* continueAfterCategorySuggestion (821-866) up to its await of the follow-up
\* completion, run by decision d with the callback `cont` its handler holds.
\* `loading` is what the handler set suggestionLoading to before the call.
Continue(ds, d, cont, categoryId, loading) ==
    IF cont.pumid = NoId \/ pendingGrokMessagesRef = <<>> \/ pendingToolCallIdRef = NoId
    THEN /\ pendingSuggestion' = NoSuggestion
         /\ suggestionLoading' = FALSE
         /\ decs' = [ds EXCEPT ![d] = [@ EXCEPT !.pc = "done", !.outcome = "dropped",
                                                !.categoryId = categoryId, !.cont = cont]]
         /\ UNCHANGED <<pendingMessageContent, pendingUserMessageId,
                        pendingGrokMessagesRef, pendingToolCallIdRef>>
         /\ UNCHANGED <<messages, isAssistantTyping, net, calls>>
         /\ UNCHANGED <<categories, activeCategoryId, sessionId, grokConfigured>>
         /\ Render(FALSE, FALSE, TRUE, FALSE)
    ELSE /\ isAssistantTyping' = TRUE
         /\ messages' = SetTags(messages, cont.pumid, <<categoryId>>)
         /\ net' = net \cup {PatchTags(cont.pumid, <<categoryId>>, <<"dec", d>>)}
         /\ calls' = calls \cup
              {Call(<<"dec", d>>, "followup",
                    FollowUpMessages(pendingGrokMessagesRef, pendingToolCallIdRef, categoryId),
                    {})}
         /\ decs' = [ds EXCEPT ![d] = [@ EXCEPT !.pc = "followup", !.outcome = "resolving",
                                                !.categoryId = categoryId, !.cont = cont,
                                                !.toolCallId = pendingToolCallIdRef]]
         /\ suggestionLoading' = loading
         /\ UNCHANGED <<pendingSuggestion, pendingMessageContent, pendingUserMessageId,
                        pendingGrokMessagesRef, pendingToolCallIdRef>>
         /\ UNCHANGED <<categories, activeCategoryId, sessionId, grokConfigured>>
         /\ Render(TRUE, FALSE, FALSE, FALSE)

\* handleAcceptSuggestion (757-801). Its dependencies are all it reads, so it
\* reads the current pendingSuggestion, pendingUserMessageId and categories; the
\* continuation it calls is the one of the render that created it.
Accept ==
    /\ UNCHANGED <<storeVars, sidebarVars>>
    /\ PopupButtons
    /\ LET d == Len(decs) + 1
           ds == Append(decs, NewDecision("accept"))
       IN IF pendingUserMessageId = NoId
          THEN /\ decs' = [ds EXCEPT ![d] = [@ EXCEPT !.pc = "done", !.outcome = "ignored"]]
               /\ UNCHANGED <<reactVars, catVars, net, calls, nNewCats>>
          ELSE IF pendingSuggestion.type = "new" /\ pendingSuggestion.newCategory
          THEN /\ suggestionLoading' = TRUE
               /\ categories' = Append(categories, NewCategoryId(nNewCats + 1))
               /\ categoryFields' = WithCategory(categoryFields, NewCategoryId(nNewCats + 1),
                                                 NewClientCategory)
               /\ nNewCats' = nNewCats + 1
               /\ decs' = [ds EXCEPT ![d] = [@ EXCEPT !.pc = "acceptPost", !.cont = acceptCont,
                                                 !.categoryId = NewCategoryId(nNewCats + 1)]]
               /\ UNCHANGED <<pendingSuggestion, pendingMessageContent, pendingUserMessageId,
                              pendingGrokMessagesRef, pendingToolCallIdRef>>
               /\ UNCHANGED <<messages, isAssistantTyping, activeCategoryId, sessionId,
                              grokConfigured, net, calls>>
               /\ Render(FALSE, TRUE, FALSE, FALSE)
          ELSE /\ Continue(ds, d, acceptCont,
                           IF pendingSuggestion.existingCategoryId # NoId
                           THEN pendingSuggestion.existingCategoryId
                           ELSE First(categories, EmptyString),
                           TRUE)
               /\ UNCHANGED <<nNewCats, catVars>>
    /\ UNCHANGED <<sends, nSends, catFetch, nSelects, nAsst, served>>
    /\ UNCHANGED <<dbVars, chatVars>>

\* The awaited POST /api/categories of handleAcceptSuggestion returns or fails
\* (779-793); then continueAfterCategorySuggestion(newCategoryId).
AcceptPostReturn(d) ==
    /\ UNCHANGED <<storeVars, sidebarVars, catVars>>
    /\ decs[d].pc = "acceptPost"
    /\ \E ok \in BOOLEAN :
         dbCategories' = IF ok THEN ServeUpsertCategory(decs[d].categoryId) ELSE dbCategories
    /\ Continue(decs, d, decs[d].cont, decs[d].categoryId, suggestionLoading)
    /\ UNCHANGED <<sends, nSends, catFetch, nSelects, nNewCats, nAsst, served>>
    /\ UNCHANGED <<dbSessions, dbMessages, dbClock, dbNextMsg, chatVars>>

\* handleSelectExistingCategory (803-806), dependencies []: a category of the
\* popup's list is clicked.
SelectExisting ==
    /\ UNCHANGED <<storeVars, sidebarVars, catVars>>
    /\ PopupButtons
    /\ \E categoryId \in Range(categories) :
         Continue(Append(decs, NewDecision("select")), Len(decs) + 1,
                  FirstRenderCont, categoryId, TRUE)
    /\ UNCHANGED <<sends, nSends, catFetch, nSelects, nNewCats, nAsst, served>>
    /\ UNCHANGED <<dbVars, chatVars>>

\* handleForceClosestCategory (808-813); its button is rendered for a
\* suggestion of type 'new'.
ForceClosest ==
    /\ UNCHANGED <<storeVars, sidebarVars, catVars>>
    /\ PopupButtons
    /\ pendingSuggestion.type = "new"
    /\ Continue(Append(decs, NewDecision("force")), Len(decs) + 1,
                dismissCont, First(categories, EmptyString), TRUE)
    /\ UNCHANGED <<sends, nSends, catFetch, nSelects, nNewCats, nAsst, served>>
    /\ UNCHANGED <<dbVars, chatVars>>

\* handleDismissSuggestion (815-819): it does not set suggestionLoading.
Dismiss ==
    /\ UNCHANGED <<storeVars, sidebarVars, catVars>>
    /\ PopupButtons
    /\ Continue(Append(decs, NewDecision("dismiss")), Len(decs) + 1,
                dismissCont, First(categories, EmptyString), suggestionLoading)
    /\ UNCHANGED <<sends, nSends, catFetch, nSelects, nNewCats, nAsst, served>>
    /\ UNCHANGED <<dbVars, chatVars>>

\* The follow-up completion of decision d returns or throws (859-903).
FollowUpReturn(d) ==
    /\ UNCHANGED <<storeVars, sidebarVars, catVars>>
    /\ decs[d].pc = "followup"
    /\ \E ok \in BOOLEAN :
         LET h == decs[d]
             tags == <<h.categoryId>>
         IN /\ IF ok
               THEN /\ messages' = Append(messages,
                                      AssistantMessage(nAsst + 1, "reply", tags, <<"dec", d>>))
                    /\ nAsst' = nAsst + 1
                    /\ net' = net \cup (IF h.cont.sid # NoId
                                        THEN {PostResponse(h.cont.sid, "reply", tags, <<"dec", d>>)}
                                        ELSE {})
               ELSE UNCHANGED <<messages, nAsst, net>>
            /\ ClearPending
            /\ isAssistantTyping' = FALSE
            /\ decs' = [decs EXCEPT ![d] =
                          [h EXCEPT !.pc = "done", !.outcome = IF ok THEN "replied" ELSE "failed"]]
            /\ UNCHANGED <<categories, activeCategoryId, sessionId, grokConfigured>>
            /\ Render(ok, FALSE, pendingSuggestion.some, FALSE)
    /\ UNCHANGED <<sends, nSends, catFetch, nSelects, nNewCats, calls, served>>
    /\ UNCHANGED <<dbVars, chatVars>>

(***************************************************************************)
(* The server handles a request the client did not await.                  *)
(***************************************************************************)
RowOf(rows, id) ==
    LET idx == { i \in 1..Len(rows) : rows[i].id = id }
    IN IF idx = {} THEN [id |-> NoId, session_id |-> NoId, role |-> "", content |-> 0,
                         timestamp |-> 0, tags |-> NullTags]
       ELSE rows[CHOOSE i \in idx : TRUE]

\* The store row of the user message a handler works on: the row its own
\* /api/chat call wrote, or the row of the send whose suggestion a decision took.
HandlerRow(by) ==
    IF by[1] = "send" THEN sends[by[2]].row
    ELSE sends[decs[by[2]].toolCallId \div 10].row

\* PATCH /api/messages/:messageId/tags (index.ts 346-360)
ServePatch ==
    \E r \in net :
       /\ UNCHANGED <<storeVars, sidebarVars, catVars>>
       /\ r.op = "patch"
       /\ dbMessages' = updateMessageTags(dbMessages, r.id, TagsColumn(r.tags))
       /\ net' = net \ {r}
       /\ served' = served \cup {[req |-> r, hit |-> RowOf(dbMessages, r.id).id # NoId,
                                    userTags |-> NullTags]}
       /\ UNCHANGED <<dbSessions, dbCategories, dbClock, dbNextMsg>>
       /\ UNCHANGED <<reactVars, sends, nSends, decs, catFetch, nSelects, nNewCats, nAsst, calls>>
       /\ UNCHANGED chatVars

\* POST /api/chat/response (index.ts 165-185)
ServeResponse ==
    \E r \in net :
       /\ UNCHANGED <<storeVars, sidebarVars, catVars>>
       /\ r.op = "response"
       /\ IF r.id = NoId \/ r.content = ""
          THEN /\ UNCHANGED dbVars
               /\ served' = served \cup {[req |-> r, hit |-> FALSE, userTags |-> NullTags]}
          ELSE /\ dbMessages' = insertMessage(dbMessages, dbNextMsg,
                                    [session_id |-> r.id, role |-> "assistant",
                                     content |-> r.content, timestamp |-> dbClock + 1,
                                     tags |-> TagsColumn(r.tags)])
               /\ dbNextMsg' = dbNextMsg + 1
               /\ dbSessions' = touchSession(dbSessions, r.id, dbClock + 1)
               /\ dbClock' = dbClock + 1
               /\ served' = served \cup
                    {[req |-> r, hit |-> TRUE,
                      userTags |-> RowOf(dbMessages, HandlerRow(r.by)).tags]}
               /\ UNCHANGED dbCategories
       /\ net' = net \ {r}
       /\ UNCHANGED <<reactVars, sends, nSends, decs, catFetch, nSelects, nNewCats, nAsst, calls>>
       /\ UNCHANGED chatVars

(***************************************************************************)
(* The sidebar and the effect that loads the categories (124-141).         *)
(***************************************************************************)
\* The response of GET /api/categories arrives: setCategories, unless it is empty.
LoadCategories ==
    /\ UNCHANGED <<storeVars, sidebarVars>>
    /\ catFetch > 0
    /\ catFetch' = catFetch - 1
    /\ categoryFields' = IF DOMAIN dbCategories # {}
                         THEN [id \in DOMAIN dbCategories |-> ClientCategory(dbCategories[id])]
                         ELSE categoryFields
    /\ IF DOMAIN dbCategories # {}
       THEN /\ categories' = getAllCategories(dbCategories)
            /\ UNCHANGED <<messages, isAssistantTyping, activeCategoryId, sessionId,
                           pendingVars, grokConfigured>>
            /\ Render(FALSE, TRUE, FALSE, FALSE)
       ELSE UNCHANGED reactVars
    /\ UNCHANGED <<sends, nSends, decs, net, nSelects, nNewCats, nAsst, calls, served>>
    /\ UNCHANGED <<dbVars, chatVars>>

SidebarChoices == {SeedCategories[2]}   \* the categories clicked in the sidebar

\* onSelectCategory = setActiveCategoryId, clicked in the sidebar while the
\* popup's overlay does not cover it; the effect that loads the categories
\* depends on activeCategoryId and fetches again.  The clicks explored are
\* those made while no reply is awaited (a bound on the user's timing, the
\* sidebar itself stays clickable): the fetch they start may still answer at
\* any later moment.
SelectCategory ==
    /\ UNCHANGED <<storeVars, sidebarVars, catVars>>
    /\ ~pendingSuggestion.some
    /\ ~isAssistantTyping
    /\ nSelects < MaxSelects
    /\ \E c \in Range(categories) \cap SidebarChoices :
         /\ c # activeCategoryId
         /\ activeCategoryId' = c
    /\ nSelects' = nSelects + 1
    /\ catFetch' = catFetch + 1
    /\ UNCHANGED <<messages, categories, isAssistantTyping, sessionId, pendingVars,
                   grokConfigured>>
    /\ Render(FALSE, FALSE, FALSE, TRUE)
    /\ UNCHANGED <<sends, nSends, decs, net, nNewCats, nAsst, calls, served>>
    /\ UNCHANGED <<dbVars, chatVars>>

(***************************************************************************)
(* SpecChat: the server handling POST /api/chat requests one after another.*)
(***************************************************************************)
InitDb ==
    /\ dbSessions = <<>>
    /\ dbMessages = <<>>
    /\ dbCategories = [id \in Range(SeedCategories) |->
                          [title |-> "seed", description |-> Null, icon |-> DefaultIcon,
                           accent |-> DefaultAccent, sort_order |-> 0, pinned |-> 0]]
    /\ dbItems = [id \in {} |-> Null]
    /\ storeLog = <<>>
    /\ dbClock = 0
    /\ dbNextMsg = 0

InitChat ==
    /\ chatReq = IdleChatReq
    /\ chatLog = <<>>
    /\ mem0Configured \in BOOLEAN
    /\ memStore = {}
    /\ ragTables \in {{}, {DefaultNamespace, 1}}

\* App after its first render in a browser without a stored session: the
\* useState initial values, the refs, and the mount effect's GET /api/categories
\* in flight. The default conversation (initialMessages), whose only user
\* message is untagged and older than any message sent, is left out of messages.
\* the Sidebar before it is mounted
NoProps == [categories |-> <<>>, messages |-> <<>>, searchQuery |-> <<>>]
SidebarUnmounted == props = NoProps /\ filtered = <<>>

InitClient ==
    /\ messages = <<>>
    /\ categories = <<>>
    /\ categoryFields = [id \in {} |-> Null]
    /\ isAssistantTyping = FALSE
    /\ activeCategoryId = NoId
    /\ sessionId = NoId
    /\ pendingSuggestion = NoSuggestion
    /\ pendingMessageContent = NoId
    /\ pendingUserMessageId = NoId
    /\ suggestionLoading = FALSE
    /\ pendingGrokMessagesRef = <<>>
    /\ pendingToolCallIdRef = NoId
    /\ sendSessionId = NoId
    /\ acceptCont = FirstRenderCont
    /\ dismissCont = FirstRenderCont
    /\ sends = [n \in 1..MaxSends |-> IdleSend]
    /\ nSends = 0
    /\ decs = <<>>
    /\ net = {}
    /\ catFetch = 1
    /\ nSelects = 0
    /\ nNewCats = 0
    /\ nAsst = 0
    /\ calls = {}
    /\ served = {}

\* The server's requests are checked with the client at rest.
Init == InitDb /\ InitChat /\ InitClient /\ SidebarUnmounted /\ grokConfigured = TRUE

NextChat ==
    \/ ChatReceive
    \/ ChatClassify
    \/ ChatInsert
    \/ ChatMemAdd
    \/ ChatMemSearch
    \/ ChatRag
    \/ ChatResponse

vars == <<dbVars, storeVars, chatVars, clientVars>>

SpecChat == Init /\ [][NextChat]_vars

(***************************************************************************)
(* Spec: the client against the server's stores.                           *)
(***************************************************************************)
Next ==
    \/ Send
    \/ \E n \in 1..MaxSends : SendChatReturn(n)
    \/ \E n \in 1..MaxSends : SendCompleteReturn(n)
    \/ \E n \in 1..MaxSends : SendCreateReturn(n)
    \/ \E n \in 1..MaxSends : SendFollowUpReturn(n)
    \/ Accept
    \/ \E d \in 1..Len(decs) : AcceptPostReturn(d)
    \/ SelectExisting
    \/ ForceClosest
    \/ Dismiss
    \/ \E d \in 1..Len(decs) : FollowUpReturn(d)
    \/ ServePatch
    \/ ServeResponse
    \/ LoadCategories
    \/ SelectCategory

\* The client is checked with or without an API key (grokIsConfigured), and
\* with the server's memory and knowledge stores as ServeChat abstracts them.
InitApp ==
    /\ InitDb /\ InitChat /\ InitClient /\ SidebarUnmounted
    /\ mem0Configured = FALSE /\ ragTables = {}
    /\ grokConfigured \in BOOLEAN

Spec == InitApp /\ [][Next]_vars

\* Every awaited call settles and the server answers every request it is sent;
\* nothing is assumed of what the user does.
Settles ==
    /\ \A n \in 1..MaxSends :
          /\ WF_vars(SendChatReturn(n))
          /\ WF_vars(SendCompleteReturn(n))
          /\ WF_vars(SendCreateReturn(n))
          /\ WF_vars(SendFollowUpReturn(n))
    /\ \A d \in 1..MaxDecisions :
          /\ WF_vars(d \in 1..Len(decs) /\ AcceptPostReturn(d))
          /\ WF_vars(d \in 1..Len(decs) /\ FollowUpReturn(d))
    /\ WF_vars(ServePatch)
    /\ WF_vars(ServeResponse)
    /\ WF_vars(LoadCategories)

FairSpec == InitApp /\ [][Next]_vars /\ Settles

(***************************************************************************)
(* SpecStore: the endpoints of the SQLite stores (server/index.ts over     *)
(* server/db.ts), handled one request after another. better-sqlite3 is     *)
(* synchronous, so each handler is one step.                               *)
(***************************************************************************)
StoreUserIds == {"u1", "u2"}
StoreSessionIds == {1, 2, 9}                 \* 9: no such session
StoreMessageIds == {DbMsgId(1), DbMsgId(2), 999}   \* 999: no such message
StoreTagSets == {<<>>, <<1>>, <<2, 1>>}
StoreDeletions == {{}, {DbMsgId(1)}, {DbMsgId(2)}, {DbMsgId(1), 999}}
StoreCategoryIds == {1, 3}                   \* a seeded category, a new one
StoreItemIds == {1, 2}
StoreLimits == {0, 1, 2}                     \* ?limit=; 0: missing or not a number
DefaultLimit == 100

\* the bodies posted to /api/categories: title only, every field, no title
StoreCategoryBodies ==
    { [id |-> id, title |-> b.title, description |-> b.description, icon |-> b.icon,
       accent |-> b.accent, sort_order |-> b.sort_order, pinned |-> b.pinned] :
        id \in StoreCategoryIds,
        b \in { [title |-> "renamed", description |-> "", icon |-> "", accent |-> "",
                 sort_order |-> 0, pinned |-> 0],
                [title |-> "full", description |-> "about", icon |-> "Brain",
                 accent |-> "accent", sort_order |-> 1, pinned |-> 1],
                [title |-> "", description |-> "", icon |-> "", accent |-> "",
                 sort_order |-> 0, pinned |-> 0] } }

\* POST /api/chat as the stores see it (index.ts 55-69, 133-143):
\* getOrCreateSession, then insertMessage of the user message.
StoreChat ==
    /\ Len(storeLog) < MaxStoreOps
    /\ \E userId \in StoreUserIds, tags \in StoreTagSets, now \in Tick :
         LET got == getOrCreateSession(dbSessions, userId, now)
             rows == insertMessage(dbMessages, dbNextMsg,
                        [session_id |-> got[2], role |-> "user", content |-> dbNextMsg + 1,
                         timestamp |-> now, tags |-> TagsColumn(tags)])
         IN /\ dbSessions' = touchSession(got[1], got[2], now)
            /\ dbMessages' = rows
            /\ dbNextMsg' = dbNextMsg + 1
            /\ dbClock' = now
            /\ StoreAnswer("chat", userId, tags, 200,
                           [sessionId |-> got[2], userMsgId |-> rows[Len(rows)].id])
    /\ UNCHANGED <<dbCategories, dbItems, chatVars, clientVars>>

StoreResponse == PersistReply(StoreSessionIds, MaxStoreOps)

\* GET /api/messages/:sessionId (index.ts 188-198): `parseInt(limit) || 100`
StoreGetMessages ==
    /\ Len(storeLog) < MaxStoreOps
    /\ \E sid \in StoreSessionIds, limit \in StoreLimits :
         LET count == IF limit = 0 THEN DefaultLimit ELSE limit
         IN \E found \in getRecentMessages(dbMessages, sid, count) :
              StoreAnswer("messages", sid, count, 200, found)
    /\ UNCHANGED <<dbVars, dbItems, chatVars, clientVars>>

\* PATCH /api/messages/:messageId/tags (index.ts 346-360)
StorePatchTags ==
    /\ Len(storeLog) < MaxStoreOps
    /\ \E messageId \in StoreMessageIds, tags \in StoreTagSets :
         /\ dbMessages' = updateMessageTags(dbMessages, messageId, TagsColumn(tags))
         /\ StoreAnswer("tags", messageId, tags, 200, tags)
    /\ UNCHANGED <<dbSessions, dbCategories, dbClock, dbNextMsg, dbItems, chatVars, clientVars>>

\* DELETE /api/messages (index.ts 331-343)
StoreDeleteMessages ==
    /\ Len(storeLog) < MaxStoreOps
    /\ \E messageIds \in StoreDeletions :
         IF messageIds = {}
         THEN /\ StoreAnswer("deleteMessages", NoId, messageIds, 400, 0)
              /\ UNCHANGED dbMessages
         ELSE /\ dbMessages' = deleteMessages(dbMessages, messageIds)
              /\ StoreAnswer("deleteMessages", NoId, messageIds, 200, Cardinality(messageIds))
    /\ UNCHANGED <<dbSessions, dbCategories, dbClock, dbNextMsg, dbItems, chatVars, clientVars>>

\* POST /api/categories (index.ts 217-229)
StoreUpsertCategory ==
    /\ Len(storeLog) < MaxStoreOps
    /\ \E body \in StoreCategoryBodies :
         IF body.title = ""
         THEN /\ StoreAnswer("category", body.id, body, 400, FALSE)
              /\ UNCHANGED dbCategories
         ELSE /\ dbCategories' = upsertCategory(dbCategories, CategoryOfBody(body))
              /\ StoreAnswer("category", body.id, body, 200, TRUE)
    /\ UNCHANGED <<dbSessions, dbMessages, dbClock, dbNextMsg, dbItems, chatVars, clientVars>>

\* POST /api/categories/:categoryId/pin (index.ts 232-241)
StoreTogglePin ==
    /\ Len(storeLog) < MaxStoreOps
    /\ \E categoryId \in StoreCategoryIds :
         LET got == toggleCategoryPinned(dbCategories, categoryId)
         IN /\ dbCategories' = got.cats
            /\ StoreAnswer("pin", categoryId, NoId, 200, got.out)
    /\ UNCHANGED <<dbSessions, dbMessages, dbClock, dbNextMsg, dbItems, chatVars, clientVars>>

\* POST /api/categories/:categoryId/items (index.ts 283-304)
StoreUpsertItem ==
    /\ Len(storeLog) < MaxStoreOps
    /\ \E categoryId \in StoreCategoryIds \cup {2}, itemId \in StoreItemIds :
         IF categoryId \notin DOMAIN dbCategories
         THEN /\ StoreAnswer("item", itemId, categoryId, 500, FALSE)
              /\ UNCHANGED dbItems
         ELSE /\ dbItems' = upsertCategoryItem(dbItems,
                               [id |-> itemId, category_id |-> categoryId, title |-> "signal"])
              /\ StoreAnswer("item", itemId, categoryId, 200, TRUE)
    /\ UNCHANGED <<dbVars, chatVars, clientVars>>

\* DELETE /api/categories/:categoryId (index.ts 319-328)
StoreDeleteCategory ==
    /\ Len(storeLog) < MaxStoreOps
    /\ \E categoryId \in StoreCategoryIds :
         LET got == deleteCategory(dbCategories, dbItems, categoryId)
         IN /\ dbCategories' = got.cats
            /\ dbItems' = got.items
            /\ StoreAnswer("deleteCategory", categoryId, NoId, 200, TRUE)
    /\ UNCHANGED <<dbSessions, dbMessages, dbClock, dbNextMsg, chatVars, clientVars>>

NextStore ==
    \/ StoreChat
    \/ StoreResponse
    \/ StoreGetMessages
    \/ StorePatchTags
    \/ StoreDeleteMessages
    \/ StoreUpsertCategory
    \/ StoreTogglePin
    \/ StoreUpsertItem
    \/ StoreDeleteCategory

\* The stores as they are when the server starts on the seeded database.
InitStore ==
    /\ InitDb /\ InitChat /\ InitClient /\ SidebarUnmounted
    /\ mem0Configured = FALSE /\ ragTables = {}
    /\ grokConfigured = TRUE

SpecStore == InitStore /\ [][NextStore]_vars

(***************************************************************************)
(* SpecSidebar: the category list of the Sidebar (components/Sidebar.tsx). *)
(*                                                                         *)
(* A title is the sequence of its letters, all lower case; a timestamp is  *)
(* the millisecond its ISO string names (new Date(t).getTime()).           *)
(***************************************************************************)
SidebarCategoryIds == {1, 2, 3}
SidebarTitles == {<<1>>, <<1, 2>>, <<2>>}          \* "a", "ab", "b"
SidebarQueries == {<<>>, <<2>>}                     \* "", "b"
SidebarTagSets == {<<>>, <<1>>, <<2, 1>>, <<3>>}

\* category lists: each id at most once
SidebarCategoryLists ==
    { c \in UNION { [1..n -> [id : SidebarCategoryIds, title : SidebarTitles,
                               pinned : BOOLEAN]] : n \in 0..MaxSidebarCategories } :
        \A i, j \in 1..Len(c) : i # j => c[i].id # c[j].id }

\* message lists: in the order they were stamped, as App appends them
SidebarMessageLists ==
    { m \in UNION { [1..n -> [tags : SidebarTagSets, timestamp : 1..MaxSidebarMessages]] :
                      n \in 0..MaxSidebarMessages } :
        /\ \A i \in 1..(Len(m) - 1) : m[i].timestamp <= m[i + 1].timestamp
        /\ Len(m) > 0 => m[1].timestamp = 1 }

\* categoryLastUsed (lines 145-159): the timestamp of the last message of the
\* list tagged with the category; 0 for a category the Map does not hold
categoryLastUsed(msgs, tagId) ==
    LET idx == { i \in 1..Len(msgs) : \E k \in 1..Len(msgs[i].tags) : msgs[i].tags[k] = tagId }
    IN IF idx = {} THEN 0
       ELSE msgs[CHOOSE i \in idx : \A j \in idx : j <= i].timestamp

\* String.prototype.localeCompare on lower-case titles: -1, 0 or 1
RECURSIVE localeCompare(_, _)
localeCompare(s, t) ==
    IF s = <<>> /\ t = <<>> THEN 0
    ELSE IF s = <<>> THEN -1
    ELSE IF t = <<>> THEN 1
    ELSE IF Head(s) < Head(t) THEN -1
    ELSE IF Head(s) > Head(t) THEN 1
    ELSE localeCompare(Tail(s), Tail(t))

\* title.toLowerCase().includes(query)
TitleIncludes(title, query) ==
    \E k \in 0..(Len(title) - Len(query)) :
       \A i \in 1..Len(query) : title[k + i] = query[i]

\* a variant of the comparator without its two pinned lines
compareCategoriesUnpinned(a, b, msgs) ==
    LET aTime == categoryLastUsed(msgs, a.id)
        bTime == categoryLastUsed(msgs, b.id)
    IN IF aTime # 0 /\ bTime # 0 THEN bTime - aTime
       ELSE IF aTime # 0 THEN -1
       ELSE IF bTime # 0 THEN 1
       ELSE localeCompare(a.title, b.title)

\* the comparator given to sort (lines 188-202)
compareCategories(a, b, msgs) ==
    LET aTime == categoryLastUsed(msgs, a.id)
        bTime == categoryLastUsed(msgs, b.id)
    IN IF a.pinned /\ ~b.pinned THEN -1
       ELSE IF ~a.pinned /\ b.pinned THEN 1
       ELSE IF aTime # 0 /\ bTime # 0 THEN bTime - aTime
       ELSE IF aTime # 0 THEN -1
       ELSE IF bTime # 0 THEN 1
       ELSE localeCompare(a.title, b.title)

\* Array.prototype.sort: stable; an element goes after those it does not precede
RECURSIVE InsertSorted(_, _, _)
InsertSorted(sorted, c, msgs) ==
    IF sorted = <<>> THEN <<c>>
    ELSE IF compareCategories(c, Head(sorted), msgs) < 0 THEN <<c>> \o sorted
    ELSE <<Head(sorted)>> \o InsertSorted(Tail(sorted), c, msgs)

RECURSIVE SortCategories(_, _)
SortCategories(list, msgs) ==
    IF list = <<>> THEN <<>>
    ELSE InsertSorted(SortCategories(SubSeq(list, 1, Len(list) - 1), msgs),
                      list[Len(list)], msgs)

\* the `filtered` memo (lines 178-203)
Filtered(p) ==
    LET result == IF p.searchQuery # <<>>
                  THEN SelectSeq(p.categories,
                                 LAMBDA c : TitleIncludes(c.title, p.searchQuery))
                  ELSE p.categories
    IN SortCategories(result, p.messages)

\* a render with new props or a new search query recomputes the memo
SidebarRenderWith(p) ==
    /\ props' = p
    /\ filtered' = Filtered(p)
    /\ UNCHANGED <<dbVars, storeVars, chatVars, reactVars, flightVars, catVars>>

\* the user types in or clears the search box (setSearchQuery)
SidebarSearch ==
    \E q \in SidebarQueries \ {props.searchQuery} :
       SidebarRenderWith([props EXCEPT !.searchQuery = q])

\* App appended a message
SidebarMessageAppended ==
    /\ Len(props.messages) < MaxSidebarMessages
    /\ \E m \in SidebarMessageLists :
         /\ Len(m) = Len(props.messages) + 1
         /\ SubSeq(m, 1, Len(props.messages)) = props.messages
         /\ SidebarRenderWith([props EXCEPT !.messages = m])

\* App toggled the pin of a category (handleTogglePin)
SidebarPinToggled ==
    \E i \in 1..Len(props.categories) :
       SidebarRenderWith([props EXCEPT !.categories[i].pinned = ~@])

NextSidebar ==
    \/ SidebarSearch
    \/ SidebarMessageAppended
    \/ SidebarPinToggled

\* the first render, with the categories and messages App holds
InitSidebar ==
    /\ InitDb /\ InitChat /\ InitClient
    /\ mem0Configured = FALSE /\ ragTables = {}
    /\ grokConfigured = TRUE
    /\ props \in [categories : SidebarCategoryLists, messages : SidebarMessageLists,
                  searchQuery : {<<>>}]
    /\ filtered = Filtered(props)

SpecSidebar == InitSidebar /\ [][NextSidebar]_vars

(***************************************************************************)
(* SpecManage: the client's message and category management (App.tsx       *)
(* 611-754) next to the send pipeline, with no completion collaborator     *)
(* configured (replies are synthesized).                                   *)
(***************************************************************************)
DeleteRequests == { r \in net \cup { e.req : e \in served } : r.op = "delete" }

\* handleDeleteMessage (App.tsx 728-754), on the message of the list the
\* button was clicked on (ChatMessageList.tsx 85-88)
handleDeleteMessage ==
    /\ Cardinality(DeleteRequests) < MaxDeletes
    /\ \E userMsgIndex \in 1..Len(messages) :
         LET userMsg == messages[userMsgIndex]
             paired == /\ userMsgIndex < Len(messages)
                       /\ messages[userMsgIndex + 1].role = "assistant"
             idsToDelete == {userMsg.id} \cup
                            (IF paired THEN {messages[userMsgIndex + 1].id} ELSE {})
         IN /\ userMsg.role = "user"
            /\ messages' = SelectSeq(messages, LAMBDA m : m.id \notin idsToDelete)
            /\ net' = net \cup {[op |-> "delete", id |-> userMsg.id, ids |-> idsToDelete,
                                 tags |-> <<>>, content |-> "",
                                 by |-> <<"delete", userMsg.id>>]}
    /\ UNCHANGED <<categories, isAssistantTyping, activeCategoryId, sessionId, pendingVars,
                   grokConfigured>>
    /\ Render(TRUE, FALSE, FALSE, FALSE)
    /\ UNCHANGED <<sends, nSends, decs, catFetch, nSelects, nNewCats, nAsst, calls, served>>
    /\ UNCHANGED <<dbVars, storeVars, sidebarVars, catVars, chatVars>>

\* DELETE /api/messages (index.ts 331-343)
ServeDelete ==
    \E r \in net :
       /\ r.op = "delete"
       /\ dbMessages' = deleteMessages(dbMessages, r.ids)
       /\ net' = net \ {r}
       /\ served' = served \cup
            {[req |-> r, hit |-> \E i \in 1..Len(dbMessages) : dbMessages[i].id \in r.ids,
              userTags |-> NullTags]}
       /\ UNCHANGED <<dbSessions, dbCategories, dbClock, dbNextMsg>>
       /\ UNCHANGED <<reactVars, sends, nSends, decs, catFetch, nSelects, nNewCats, nAsst, calls>>
       /\ UNCHANGED <<storeVars, sidebarVars, catVars, chatVars>>

CategoryRequests ==
    { r \in net \cup { e.req : e \in served } : r.op \in {"category", "pin", "pinFailed"} }

\* the body handleRenameCategory posts (App.tsx 617): id and title, nothing else
RenameBody(categoryId, nextTitle) ==
    [id |-> categoryId, title |-> nextTitle, description |-> "", icon |-> "", accent |-> "",
     sort_order |-> 0, pinned |-> 0]

ManageFrame ==
    /\ UNCHANGED <<reactVars, sends, nSends, decs, catFetch, nSelects, nNewCats, nAsst, calls>>
    /\ UNCHANGED <<storeVars, sidebarVars, chatVars>>

\* setCategories of a category handler: the list keeps its ids, App renders again
CategoriesSet ==
    /\ UNCHANGED <<messages, categories, isAssistantTyping, activeCategoryId, sessionId,
                   pendingVars, grokConfigured>>
    /\ Render(FALSE, TRUE, FALSE, FALSE)
    /\ UNCHANGED <<sends, nSends, decs, catFetch, nSelects, nNewCats, nAsst, calls>>
    /\ UNCHANGED <<storeVars, sidebarVars, chatVars>>

\* handleRenameCategory (App.tsx 611-621), on a category of the list
handleRenameCategory ==
    /\ Cardinality(CategoryRequests) < MaxCategoryEdits
    /\ \E i \in 1..Len(categories), nextTitle \in {"renamed"} :
         LET categoryId == categories[i]
         IN /\ categoryId \in DOMAIN categoryFields
            /\ categoryFields' = [categoryFields EXCEPT ![categoryId].title = nextTitle]
            /\ net' = net \cup {[op |-> "category", id |-> categoryId, tags |-> <<>>,
                                 content |-> "", body |-> RenameBody(categoryId, nextTitle),
                                 by |-> <<"rename", Cardinality(CategoryRequests) + 1>>]}
    /\ UNCHANGED <<served, dbVars>>
    /\ CategoriesSet

\* handleTogglePin (App.tsx 690-705) up to its await: the optimistic toggle
handleTogglePin ==
    /\ Cardinality(CategoryRequests) < MaxCategoryEdits
    /\ \E i \in 1..Len(categories) :
         LET categoryId == categories[i]
         IN /\ categoryId \in DOMAIN categoryFields
            /\ categoryFields' =
                 [categoryFields EXCEPT ![categoryId].pinned = ~categoryFields[categoryId].pinned]
            /\ net' = net \cup {[op |-> "pin", id |-> categoryId, tags |-> <<>>,
                                 content |-> "", body |-> NoId,
                                 by |-> <<"pin", Cardinality(CategoryRequests) + 1>>]}
    /\ UNCHANGED <<served, dbVars>>
    /\ CategoriesSet

\* POST /api/categories (index.ts 217-229) of a rename
ServeCategory ==
    \E r \in net :
       /\ r.op = "category"
       /\ dbCategories' = IF r.body.title = "" THEN dbCategories
                          ELSE upsertCategory(dbCategories, CategoryOfBody(r.body))
       /\ net' = net \ {r}
       /\ served' = served \cup {[req |-> r, hit |-> r.id \in DOMAIN dbCategories,
                                    userTags |-> NullTags]}
       /\ UNCHANGED <<dbSessions, dbMessages, dbClock, dbNextMsg, catVars>>
       /\ ManageFrame

\* POST /api/categories/:categoryId/pin (index.ts 232-241)
ServePin ==
    \E r \in net :
       /\ r.op = "pin"
       /\ dbCategories' = toggleCategoryPinned(dbCategories, r.id).cats
       /\ net' = net \ {r}
       /\ served' = served \cup {[req |-> r, hit |-> r.id \in DOMAIN dbCategories,
                                    userTags |-> NullTags]}
       /\ UNCHANGED <<dbSessions, dbMessages, dbClock, dbNextMsg, catVars>>
       /\ ManageFrame

\* the fetch of handleTogglePin rejects (App.tsx 698-704): the toggle is reverted
PinFails ==
    \E r \in net :
       /\ r.op = "pin"
       /\ categoryFields' =
            IF r.id \in DOMAIN categoryFields
            THEN [categoryFields EXCEPT ![r.id].pinned = ~categoryFields[r.id].pinned]
            ELSE categoryFields
       /\ net' = net \ {r}
       /\ served' = served \cup {[req |-> [r EXCEPT !.op = "pinFailed"], hit |-> FALSE,
                                    userTags |-> NullTags]}
       /\ UNCHANGED dbVars
       /\ CategoriesSet

NextManage ==
    \/ Send
    \/ \E n \in 1..MaxSends : SendChatReturn(n)
    \/ ServePatch
    \/ ServeResponse
    \/ LoadCategories
    \/ handleDeleteMessage
    \/ ServeDelete
    \/ handleRenameCategory
    \/ handleTogglePin
    \/ ServeCategory
    \/ ServePin
    \/ PinFails

InitManage ==
    /\ InitDb /\ InitChat /\ InitClient /\ SidebarUnmounted
    /\ mem0Configured = FALSE /\ ragTables = {}
    /\ grokConfigured = FALSE

SpecManage == InitManage /\ [][NextManage]_vars

(***************************************************************************)
(* Claims about POST /api/chat, checked under SpecChat.                    *)
(***************************************************************************)
UserRowOf(req) ==
    \E j \in 1..Len(dbMessages) :
        /\ dbMessages[j].id = req.userMsgId
        /\ dbMessages[j].role = "user"
        /\ dbMessages[j].content = req.content

\* C4: every request that passed the 400 guards and has been answered (200 or
\* 500) has its user message in the Message Store, whatever failed in the memory
\* collaborator (add, search) and the knowledge collaborator (connect, table
\* lookup, query), and the row is still there after every later request.
C4_DurableDespiteCollaborators ==
    \A i \in 1..Len(chatLog) : chatLog[i].status # 400 => UserRowOf(chatLog[i])

\* a request whose add, search and connect all failed was answered 500, and a
\* later request has been answered since
C4_Witness ==
    /\ Len(chatLog) = 2
    /\ chatLog[1].status = 500
    /\ {"add", "search", "connect"} \subseteq chatLog[1].failed
    /\ UserRowOf(chatLog[1])

Idle == ~pendingSuggestion.some /\ ~isAssistantTyping

\* C1: once a decision has been taken on a pending suggestion, and every
\* completion call returns or throws, the client comes to IDLE: no pending
\* suggestion and the typing indicator off.
C1_DecisionLeadsToIdle ==
    \A d \in 1..MaxDecisions : (Len(decs) >= d) ~> Idle

\* C2: while a suggestion is pending, no step stores another suggestion in its
\* place: the stored tool call id and message id stay until it is cleared.
C2_PendingSuggestionNotOverwritten ==
    [][pendingSuggestion.some /\ pendingSuggestion'.some
         => /\ pendingToolCallIdRef' = pendingToolCallIdRef
            /\ pendingUserMessageId' = pendingUserMessageId
            /\ pendingSuggestion' = pendingSuggestion]_vars

Resolved(d) == decs[d].outcome \in {"resolving", "replied", "failed"}
SendOf(d) == decs[d].toolCallId \div 10     \* the send whose suggestion d resolved
PatchServed(d) ==
    \E s \in served : s.req.op = "patch" /\ s.req.by = <<"dec", d>>
LastOn(d) ==
    \A e \in 1..Len(decs) : Resolved(e) /\ decs[e].toolCallId = decs[d].toolCallId => e <= d
ClientTagsOf(n) ==
    LET idx == { i \in 1..Len(messages) : messages[i].id = ClientMsgId(n) }
    IN messages[CHOOSE i \in idx : TRUE].tags

\* C3: after a decision has resolved a pending suggestion to categoryId and its
\* tag update has been handled by the server, the user message carries exactly
\* that tag in the client's list and in the row /api/chat wrote for it.
C3_ResolvedTagInListAndStore ==
    \A d \in 1..Len(decs) :
        Resolved(d) /\ LastOn(d) /\ PatchServed(d) /\ sends[SendOf(d)].row # NoId
           => /\ ClientTagsOf(SendOf(d)) = <<decs[d].categoryId>>
              /\ RowOf(dbMessages, sends[SendOf(d)].row).tags
                   = TagsColumn(<<decs[d].categoryId>>)

\* C6: every decision taken on a pending suggestion goes on to resolve it with a
\* category of the list: none of them drops the suggestion.
C6_EveryDecisionResolves ==
    \A d \in 1..Len(decs) :
        decs[d].pc \in {"followup", "done"}
           => /\ Resolved(d)
              /\ decs[d].categoryId \in Range(categories)

\* C7: when the server inserts an assistant reply, the user message of that
\* exchange already carries the reply's tags in the Message Store.
C7_TagsStoredBeforeReply ==
    \A s \in served :
        s.req.op = "response" /\ s.hit /\ HandlerRow(s.req.by) # NoId
           => s.userTags = TagsColumn(s.req.tags)

FollowUpCallsOn(toolCallId) ==
    { c \in calls : /\ c.kind = "followup"
                    /\ c.by[1] = "dec"
                    /\ c.transcript[Len(c.transcript)].tool_call_id = toolCallId }

\* C8: once a decision on a pending suggestion has run to its end, exactly one
\* follow-up completion call has been made for that suggestion; it offers no
\* tools and its transcript is the stored one, an empty assistant entry, and
\* the tool result bound to the stored tool call id.
C8_ExactlyOneFollowUpCall ==
    \A d \in 1..Len(decs) :
        decs[d].pc = "done"
           => /\ Cardinality(FollowUpCallsOn(decs[d].pending)) = 1
              /\ \A c \in FollowUpCallsOn(decs[d].pending) :
                    /\ c.tools = {}
                    /\ c.transcript = FollowUpMessages(GrokMessages(decs[d].pending \div 10),
                                                       decs[d].pending, decs[d].categoryId)

Undecided(n) ==
    \A d \in 1..Len(decs) : decs[d].pending # ToolCallId(n, sends[n].idx)

C10_ThrowAppendsNothingAndClears ==
    [][\A d \in 1..Len(decs) :
          decs[d].pc = "followup" /\ decs'[d].outcome = "failed"
             => /\ messages' = messages
                /\ net' = net
                /\ ~pendingSuggestion'.some
                /\ ~suggestionLoading'
                /\ pendingMessageContent' = NoId
                /\ pendingUserMessageId' = NoId
                /\ pendingGrokMessagesRef' = <<>>
                /\ pendingToolCallIdRef' = NoId
                /\ ~isAssistantTyping']_vars

\* the follow-up completion of a decision has thrown
C10_Witness ==
    \E d \in 1..Len(decs) :
        /\ decs[d].outcome = "failed"
        /\ \E c \in calls : c.by = <<"dec", d>>

AcceptedNew(d) ==
    /\ decs[d].kind = "accept"
    /\ \E k \in 1..nNewCats : decs[d].categoryId = NewCategoryId(k)

\* C11: once Accept of a suggested new category has tagged the user message
\* with the new id (and from then on), the Category Store holds that category.
C11_NewCategoryStoredBeforeUse ==
    \A d \in 1..Len(decs) :
        AcceptedNew(d) /\ Resolved(d) => decs[d].categoryId \in DOMAIN dbCategories

\* C12: every dismiss and every force-fallback taken on a pending suggestion
\* resolves it, and to the category the Category Store lists first.
C12_FallbackResolvesToStoreFirst ==
    \A d \in 1..Len(decs) :
        decs[d].kind \in {"dismiss", "force"}
           => /\ Resolved(d)
              /\ decs[d].categoryId = First(getAllCategories(dbCategories), EmptyString)

CallsBy(by) == { c \in calls : c.by = by }

\* C13: a message submitted with explicit tags is never suspended on a
\* suggestion, and no completion call made for it offers suggest_category,
\* whatever tool calls the collaborator returns.
C13_TaggedMessageNeverSuspends ==
    \A n \in 1..MaxSends :
        Len(sends[n].tags) > 0
           => /\ sends[n].pc # "suspended"
              /\ \A c \in CallsBy(<<"send", n>>) : "suggest_category" \notin c.tools

\* C14 as stated: no completion call offers both suggest_category and
\* create_context_category.
C14_ToolsMutuallyExclusive ==
    \A c \in calls : ~({"suggest_category", "create_context_category"} \subseteq c.tools)

\* C14 amended: the first completion call of a message always offers
\* create_context_category, and offers suggest_category with it exactly when
\* the message has no explicit tag and the category list is not empty; the
\* follow-up calls offer no tools.
C14_SuggestOfferedWithCreateWhenUntagged ==
    \A c \in calls :
        IF c.kind = "first"
        THEN /\ "create_context_category" \in c.tools
             /\ "suggest_category" \in c.tools
                   <=> /\ Len(sends[c.by[2]].tags) = 0
                       /\ Len(sends[c.by[2]].cats) > 0
        ELSE c.tools = {}

\* an untagged message was sent with both tools offered, and a tagged one with
\* create_context_category alone
C14_Witness ==
    /\ \E c \in calls : c.tools = {"suggest_category", "create_context_category"}
    /\ \E c \in calls : c.tools = {"create_context_category"} /\ Len(sends[c.by[2]].tags) > 0

FollowUpsOfSend(n) ==
    { c.transcript[Len(c.transcript)].tool_call_id :
         c \in { x \in CallsBy(<<"send", n>>) : x.kind = "followup" } }

\* C15: the tool calls of one response are processed in the order received:
\* every create call before the current one has had its follow-up, no call
\* after the current one has had any effect, and no suggestion is passed over;
\* a handler suspended on a suggestion has created no category and made no
\* follow-up call for that suggestion or for any later call of the batch.
C15_InOrderAndShortCircuit ==
    \A n \in 1..MaxSends :
        LET h == sends[n] IN
        Len(h.batch) > 0 /\ h.idx > 0
           => /\ FollowUpsOfSend(n) \subseteq { ToolCallId(n, j) : j \in 1..h.idx }
              /\ \A j \in 1..(h.idx - 1) :
                    /\ h.batch[j].name = "create_context_category"
                    /\ ToolCallId(n, j) \in FollowUpsOfSend(n)
              /\ h.pc = "suspended"
                    => /\ h.batch[h.idx].name = "suggest_category"
                       /\ ToolCallId(n, h.idx) \notin FollowUpsOfSend(n)
                       /\ h.idx = 1 => h.newCat = NoId

\* a response carried a suggestion followed by a create call; the handler is
\* suspended on the suggestion, and another category has been created since
C15_Witness ==
    \E n \in 1..MaxSends :
        /\ sends[n].pc = "suspended"
        /\ sends[n].idx = 1
        /\ Len(sends[n].batch) = 2
        /\ sends[n].batch[2].name = "create_context_category"
        /\ nNewCats > 0

\* The requests to POST /api/chat/response a handler has issued, in flight or
\* already handled.
ResponsesBy(by) ==
    { r \in net : r.op = "response" /\ r.by = by }
      \cup { e.req : e \in { x \in served : x.req.op = "response" /\ x.req.by = by } }

\* C16: whenever the follow-up completion after a decision has succeeded, the
\* assistant reply tagged exactly <<categoryId>> is on its way to the message
\* store or stored there.
C16_ReplyPersistedWithCategory ==
    \A d \in 1..Len(decs) :
       decs[d].outcome = "replied" =>
          \E r \in ResponsesBy(<<"dec", d>>) :
             /\ r.tags = <<decs[d].categoryId>>
             /\ \A e \in served : e.req = r => e.hit

\* C17: the step in which handleSendMessage ends through its catch block (the
\* completion collaborator failed hard) appends the locally synthesized
\* placeholder as an assistant message and clears the typing indicator,
\* whatever the category list, the empty one included.
C17_HardFailureAppendsPlaceholder ==
    [][\A n \in 1..MaxSends :
          sends[n].pc # "caught" /\ sends'[n].pc = "caught"
             => /\ ~isAssistantTyping'
                /\ Len(messages') = Len(messages) + 1
                /\ messages'[Len(messages')].role = "assistant"
                /\ messages'[Len(messages')].content = "fallback"]_vars

\* the completion response of send n invoked create_context_category and no
\* suggest_category
CreateOnly(n) ==
    /\ Len(sends[n].batch) > 0
    /\ \A j \in 1..Len(sends[n].batch) : sends[n].batch[j].name = "create_context_category"

\* C18: a request whose completion response invokes create_context_category
\* and no suggest_category never suspends and creates no pending suggestion;
\* once it has ended with its reply, the category is in the Category Store,
\* exactly one follow-up completion was issued, and the reply is on its way to
\* the message store or stored there.
C18_CreateOnlyCompletesWithoutSuspension ==
    \A n \in 1..MaxSends :
       CreateOnly(n) =>
          /\ sends[n].pc # "suspended"
          /\ pendingToolCallIdRef \div 10 # n
          /\ sends[n].pc = "done" =>
                /\ sends[n].newCat \in DOMAIN dbCategories
                /\ Cardinality({ c \in CallsBy(<<"send", n>>) : c.kind = "followup" }) = 1
                /\ \E r \in ResponsesBy(<<"send", n>>) : \A e \in served : e.req = r => e.hit

\* The completion calls made for the utterance of send n: those of its own
\* handler and those of the decisions taken on its suggestion.
CallsForUtterance(n) ==
    CallsBy(<<"send", n>>)
      \cup { c \in calls : /\ c.by[1] = "dec"
                           /\ decs[c.by[2]].toolCallId \div 10 = n }

\* C19: for one user utterance at most two calls go to the completion
\* collaborator, the initial call and at most one follow-up.
C19_AtMostTwoCompletionCalls ==
    \A n \in 1..MaxSends : Cardinality(CallsForUtterance(n)) <= 2

\* the namespace the request searched: tags[0] ?? 'default'
NamespaceOf(req) == IF Len(req.tags) > 0 THEN req.tags[1] ELSE DefaultNamespace

\* C20: a submit request that has reached the knowledge search carries at most
\* k documents, and when the search failed in any way or the namespace has no
\* table the request is answered 200 with an empty document list.
C20_SearchDegradesToEmpty ==
    chatReq.pc = "done" /\ "rag" \in chatReq.calls =>
       /\ Len(chatReq.ragDocs) <= RagK
       /\ (chatReq.failed \cap RagOutcomes # {} \/ NamespaceOf(chatReq) \notin ragTables)
             => /\ chatReq.status = 200
                /\ chatReq.ragDocs = <<>>

(***************************************************************************)
(* Claims about the memory collaborator's wrapper, checked under SpecChat.  *)
(***************************************************************************)
\* the tag sets of atom m and of the request intersect
TagsIntersect(m, tags) ==
    \E i \in 1..Len(m.tags), j \in 1..Len(tags) : m.tags[i] = tags[j]

\* C21: the memories a request retrieved are, with non-empty request tags,
\* exactly the collaborator's results whose tags intersect them; with empty
\* tags every result; and none when the search failed.
C21_RetrievedFilteredByTags ==
    "search" \in chatReq.calls =>
       chatReq.relevant =
          IF "search" \in chatReq.failed THEN {}
          ELSE IF Len(chatReq.tags) = 0 THEN memStore
          ELSE { m \in memStore : TagsIntersect(m, chatReq.tags) }

\* C22: a request whose mem0.add was rejected still goes through memory and
\* knowledge retrieval and is answered 200 with its sessionId and userMsgId.
C22_AddFailureNeverAborts ==
    chatReq.pc = "done" /\ "add" \in chatReq.failed =>
       /\ {"search", "rag"} \subseteq chatReq.calls
       /\ chatReq.status = 200
       /\ chatReq.sessionId # NoId
       /\ chatReq.userMsgId # NoId

\* the atoms of one type among the candidates of a request
AtomsOfType(req, type) ==
    { i \in 1..Len(req.candidates) : req.candidates[i].type = type }

Matches(b) == IF b THEN 1 ELSE 0

\* C23: once the heuristics have run, the request holds exactly one atom per
\* matching rule and none for a rule that does not match, of type preference,
\* profile, goal and note respectively, each with the request's tags.
C23_OneAtomPerMatchingRule ==
    chatReq.pc \in {"insert", "memAdd", "memSearch", "rag"} =>
       LET u == chatReq.text
       IN /\ Cardinality(AtomsOfType(chatReq, "preference")) = Matches(PreferenceRule(u))
          /\ Cardinality(AtomsOfType(chatReq, "profile")) = Matches(ProfileRule(u))
          /\ Cardinality(AtomsOfType(chatReq, "goal")) = Matches(GoalRule(u))
          /\ Cardinality(AtomsOfType(chatReq, "note")) = Matches(NoteRule(u))
          /\ Len(chatReq.candidates) =
                Matches(PreferenceRule(u)) + Matches(ProfileRule(u))
                  + Matches(GoalRule(u)) + Matches(NoteRule(u))
          /\ \A i \in 1..Len(chatReq.candidates) : chatReq.candidates[i].tags = chatReq.tags

(***************************************************************************)
(* Claims about the stores, checked under SpecStore.                       *)
(***************************************************************************)
\* the request the step has just answered
Answered == storeLog'[Len(storeLog')]
Answers(op) == Len(storeLog') = Len(storeLog) + 1 /\ Answered.op = op

\* C24: a tag update leaves the message tagged with exactly the tags it was
\* given, whatever tags an earlier update or the insert had stored, and
\* changes no other message.
C24_TagsFullyReplaced ==
    [][Answers("tags") =>
          /\ Len(dbMessages') = Len(dbMessages)
          /\ \A i \in 1..Len(dbMessages) :
                IF dbMessages[i].id = Answered.id
                THEN /\ Range(TagsOfColumn(dbMessages'[i].tags)) = Range(Answered.arg)
                     /\ [dbMessages'[i] EXCEPT !.tags = NullTags]
                          = [dbMessages[i] EXCEPT !.tags = NullTags]
                ELSE dbMessages'[i] = dbMessages[i]]_vars

\* updateTags(id, A) followed by updateTags(id, B) on a stored message, with a
\* tag of A that B does not hold
C24_Witness ==
    \E k \in 1..(Len(storeLog) - 1) :
       /\ storeLog[k].op = "tags" /\ storeLog[k + 1].op = "tags"
       /\ storeLog[k].id = storeLog[k + 1].id
       /\ \E i \in 1..Len(dbMessages) : dbMessages[i].id = storeLog[k].id
       /\ Len(storeLog[k + 1].arg) > 0
       /\ ~(Range(storeLog[k].arg) \subseteq Range(storeLog[k + 1].arg))

\* C25: a deletion removes exactly the stored messages whose id it was given
\* and leaves every other message as it was and in place; a user message
\* deleted without a stored reply after it, or with one, takes no other row
\* with it.
C25_DeletesExactlyGivenIds ==
    [][Answers("deleteMessages") /\ Answered.status = 200 =>
          /\ dbMessages' = SelectSeq(dbMessages, LAMBDA row : row.id \notin Answered.arg)
          /\ \A i \in 1..Len(dbMessages) :
                dbMessages[i].id \notin Answered.arg =>
                   \E j \in 1..Len(dbMessages') : dbMessages'[j] = dbMessages[i]
          /\ \A j \in 1..Len(dbMessages') : dbMessages'[j].id \notin Answered.arg]_vars

\* the user message of the second request, the last one stored, has been
\* deleted and the message before it is still there
C25_Witness ==
    /\ Len(storeLog) = 3
    /\ storeLog[2].op = "chat"
    /\ storeLog[3].op = "deleteMessages" /\ storeLog[3].status = 200
    /\ storeLog[3].arg = {storeLog[2].out.userMsgId}
    /\ Len(dbMessages) = 1
    /\ dbMessages[1].id = DbMsgId(1)

\* C26: a pin toggle of a stored category flips its pinned flag, answers with
\* the new value and changes nothing else; a second toggle right after it
\* brings the flag back, so a category that started unpinned is answered
\* pinned = false by the second toggle.
C26_ToggleFlipsAndReturns ==
    [][Answers("pin") /\ Answered.id \in DOMAIN dbCategories =>
          /\ DOMAIN dbCategories' = DOMAIN dbCategories
          /\ dbCategories'[Answered.id].pinned = 1 - dbCategories[Answered.id].pinned
          /\ Answered.out = (dbCategories'[Answered.id].pinned = 1)
          /\ dbCategories' = [dbCategories EXCEPT
                                 ![Answered.id].pinned = dbCategories'[Answered.id].pinned]
          /\ \A k \in 1..(Len(storeLog') - 1) :
                /\ storeLog'[k].op = "pin" /\ storeLog'[k].id = Answered.id
                /\ k = Len(storeLog') - 1
                => Answered.out = ~storeLog'[k].out]_vars

\* an unpinned category toggled twice in succession: the second answer is
\* pinned = false and the stored flag is 0 again
C26_Witness ==
    /\ Len(storeLog) = 2
    /\ storeLog[1].op = "pin" /\ storeLog[2].op = "pin"
    /\ storeLog[1].id = storeLog[2].id
    /\ storeLog[1].id \in DOMAIN dbCategories
    /\ storeLog[1].out = TRUE /\ storeLog[2].out = FALSE
    /\ dbCategories[storeLog[1].id].pinned = 0

\* C27: deleting a category removes its row and every item it owns, leaves
\* the other categories and their items as they were, and leaves every
\* message as it was, the ones tagged with the deleted id included.
C27_DeleteCategoryCascadesToItemsOnly ==
    [][Answers("deleteCategory") =>
          /\ DOMAIN dbCategories' = DOMAIN dbCategories \ {Answered.id}
          /\ \A c \in DOMAIN dbCategories' : dbCategories'[c] = dbCategories[c]
          /\ DOMAIN dbItems' =
                { i \in DOMAIN dbItems : dbItems[i].category_id # Answered.id }
          /\ \A i \in DOMAIN dbItems' : dbItems'[i] = dbItems[i]
          /\ dbMessages' = dbMessages
          /\ dbSessions' = dbSessions]_vars

\* a message tagged with a category and an item owned by it were stored, the
\* category was deleted: the item is gone, the message still carries the tag
C27_Witness ==
    /\ Len(storeLog) = 3
    /\ storeLog[3].op = "deleteCategory"
    /\ storeLog[2].op = "item" /\ storeLog[2].status = 200
    /\ storeLog[2].arg = storeLog[3].id
    /\ storeLog[1].op = "chat"
    /\ storeLog[3].id \in Range(storeLog[1].arg)
    /\ storeLog[3].id \notin DOMAIN dbCategories
    /\ storeLog[2].id \notin DOMAIN dbItems
    /\ Len(dbMessages) = 1
    /\ storeLog[3].id \in Range(TagsOfColumn(dbMessages[1].tags))

\* C28: an accepted category upsert stores a row for the id when there was
\* none and, when there was one, leaves in it only what the request
\* supplied: every column is the supplied value, or the default of a column
\* the request left out, never the value of the previous row; the other
\* categories are unchanged.
C28_UpsertReplacesEveryField ==
    [][Answers("category") /\ Answered.status = 200 =>
          LET body == Answered.arg
              row == dbCategories'[body.id]
          IN /\ DOMAIN dbCategories' = DOMAIN dbCategories \cup {body.id}
             /\ row.title = body.title
             /\ row.description = (IF body.description = "" THEN Null ELSE body.description)
             /\ row.icon = (IF body.icon = "" THEN DefaultIcon ELSE body.icon)
             /\ row.accent = (IF body.accent = "" THEN DefaultAccent ELSE body.accent)
             /\ row.sort_order = body.sort_order
             /\ row.pinned = body.pinned
             /\ \A c \in DOMAIN dbCategories \ {body.id} : dbCategories'[c] = dbCategories[c]
             /\ dbItems' = dbItems /\ dbMessages' = dbMessages]_vars

\* a category that was not stored is upserted with every field, then again
\* with a title only: nothing of the first row is left
C28_Witness ==
    /\ Len(storeLog) = 2
    /\ storeLog[1].op = "category" /\ storeLog[1].status = 200
    /\ storeLog[2].op = "category" /\ storeLog[2].status = 200
    /\ storeLog[1].id = storeLog[2].id
    /\ storeLog[1].id \notin Range(SeedCategories)
    /\ storeLog[1].arg.title = "full" /\ storeLog[1].arg.pinned = 1
    /\ storeLog[2].arg.title = "renamed"
    /\ dbCategories[storeLog[2].id] =
          [title |-> "renamed", description |-> Null, icon |-> DefaultIcon,
           accent |-> DefaultAccent, sort_order |-> 0, pinned |-> 0]

\* the sessions of a user, as indices of the sessions table
SessionsOf(sessions, userId) == { i \in 1..Len(sessions) : sessions[i].user_id = userId }

\* C29: a chat request is served in the most recently updated session of
\* its user, and a session is created only for a user that has none; every
\* message insert sets the updated_at of the message's session to the time
\* of the insert, never an earlier one; no step removes a session or changes
\* whose it is.
C29_CurrentSessionPerUser ==
    [][/\ Answers("chat") =>
            LET mine == SessionsOf(dbSessions, Answered.id)
            IN IF mine # {}
               THEN /\ Len(dbSessions') = Len(dbSessions)
                    /\ \E i \in mine :
                          /\ dbSessions[i].id = Answered.out.sessionId
                          /\ \A j \in mine : dbSessions[j].updated_at <= dbSessions[i].updated_at
               ELSE /\ Len(dbSessions') = Len(dbSessions) + 1
                    /\ dbSessions'[Len(dbSessions')].id = Answered.out.sessionId
                    /\ dbSessions'[Len(dbSessions')].user_id = Answered.id
                    /\ \A i \in 1..Len(dbSessions) : dbSessions[i].id # Answered.out.sessionId
       /\ ~Answers("chat") => Len(dbSessions') = Len(dbSessions)
       /\ Len(dbMessages') > Len(dbMessages) =>
            /\ Len(dbMessages') = Len(dbMessages) + 1
            /\ \E i \in 1..Len(dbSessions') :
                  /\ dbSessions'[i].id = dbMessages'[Len(dbMessages')].session_id
                  /\ dbSessions'[i].updated_at = dbClock'
                  /\ \A j \in 1..Len(dbSessions') : dbSessions'[j].updated_at <= dbClock'
       /\ \A i \in 1..Len(dbSessions) :
            /\ i <= Len(dbSessions')
            /\ dbSessions'[i].id = dbSessions[i].id
            /\ dbSessions'[i].user_id = dbSessions[i].user_id
            /\ dbSessions'[i].updated_at >= dbSessions[i].updated_at]_vars

\* a user's second chat request, after another user's, is served in the
\* session of the first; that session's updated_at moved with the insert
C29_Witness ==
    /\ Len(storeLog) = 3
    /\ \A k \in 1..3 : storeLog[k].op = "chat"
    /\ storeLog[1].id = storeLog[3].id /\ storeLog[2].id # storeLog[1].id
    /\ storeLog[3].out.sessionId = storeLog[1].out.sessionId
    /\ Len(dbSessions) = 2
    /\ dbSessions[1].id = storeLog[3].out.sessionId
    /\ dbSessions[1].updated_at = dbClock
    /\ dbSessions[1].updated_at > dbSessions[2].updated_at
    /\ dbMessages[3].session_id = dbSessions[1].id

\* C30: the history of a session holds only stored messages of that session,
\* each once, at most `limit` of them and all of them when there are no more
\* than that; they come newest first, and no message of the session that
\* was left out is newer than one that was returned.
C30_RecentDescendingWithinLimit ==
    [][Answers("messages") =>
          LET out == Answered.out
              mine == { i \in 1..Len(dbMessages) : dbMessages[i].session_id = Answered.id }
              got == { i \in mine : \E k \in 1..Len(out) : out[k] = dbMessages[i] }
          IN /\ \A k \in 1..Len(out) :
                   /\ out[k].session_id = Answered.id
                   /\ \E i \in mine : dbMessages[i] = out[k]
             /\ \A k, l \in 1..Len(out) : k # l => out[k].id # out[l].id
             /\ Len(out) <= Answered.arg
             /\ Len(out) = (IF Cardinality(mine) <= Answered.arg
                            THEN Cardinality(mine) ELSE Answered.arg)
             /\ \A k \in 1..(Len(out) - 1) : out[k].timestamp >= out[k + 1].timestamp
             /\ \A i \in mine \ got : \A k \in 1..Len(out) :
                   dbMessages[i].timestamp <= out[k].timestamp
             /\ dbMessages' = dbMessages]_vars

\* two messages of a session stored at different times, read with limit 1:
\* the later one is returned
C30_Witness ==
    /\ Len(storeLog) = 3
    /\ storeLog[3].op = "messages" /\ storeLog[3].arg = 1
    /\ Len(dbMessages) = 2
    /\ dbMessages[1].session_id = storeLog[3].id
    /\ dbMessages[2].session_id = storeLog[3].id
    /\ dbMessages[1].timestamp < dbMessages[2].timestamp
    /\ storeLog[3].out = <<dbMessages[2]>>

(***************************************************************************)
(* Claims about the server's validation, checked under SpecChat.           *)
(***************************************************************************)
\* the step receives a submit request
Receives == chatReq'.n = chatReq.n + 1

\* C31: a submit request without a userId or without a user message is
\* answered 400 at once, and a persist-reply request without a sessionId or
\* without content is answered 400; neither changes the sessions, the
\* messages, the memory collaborator's store or the knowledge tables.
\* (A received request holds content 0 until its latest user message is read.)
C31_InvalidRequestsRejectedUntouched ==
    [][/\ Receives /\ (chatReq'.userId = "" \/ chatReq'.content = 0) =>
            /\ chatReq'.pc = "done" /\ chatReq'.status = 400
            /\ Len(chatLog') = Len(chatLog) + 1
            /\ chatLog'[Len(chatLog')].status = 400
            /\ UNCHANGED <<dbSessions, dbMessages, memStore, ragTables>>
       /\ Answers("response") /\ (Answered.id = NoId \/ Answered.arg = "") =>
            /\ Answered.status = 400
            /\ UNCHANGED <<dbSessions, dbMessages, memStore, ragTables>>]_vars

\* after a request that stored a session and a message, a submit request and
\* a persist-reply request have been answered 400: one session, one message
C31_Witness ==
    /\ Len(chatLog) = 2
    /\ chatLog[1].status = 200 /\ chatLog[2].status = 400
    /\ Len(storeLog) = 1
    /\ storeLog[1].op = "response" /\ storeLog[1].status = 400
    /\ Len(dbSessions) = 1 /\ Len(dbMessages) = 1

(***************************************************************************)
(* Claims about the Sidebar, checked under SpecSidebar.                    *)
(***************************************************************************)
\* title s is not after title t in dictionary order
TitleNotAfter(s, t) ==
    \/ Len(s) <= Len(t) /\ \A k \in 1..Len(s) : s[k] = t[k]
    \/ \E k \in 1..Len(s) :
          /\ k <= Len(t)
          /\ s[k] < t[k]
          /\ \A l \in 1..(k - 1) : s[l] = t[l]

\* the time of the newest message tagged with the category, 0 when there is none
UsedAt(c) ==
    LET at == { props.messages[i].timestamp : i \in
                  { i \in 1..Len(props.messages) :
                      c.id \in Range(props.messages[i].tags) } }
    IN IF at = {} THEN 0 ELSE CHOOSE t \in at : \A u \in at : u <= t

\* C32: the displayed list holds the categories that match the search, each
\* once; every pinned one is before every unpinned one; within the pinned and
\* within the unpinned, the used ones come first, most recently used first,
\* and the unused ones after them in title order.
C32_PinnedThenRecentThenTitle ==
    /\ Len(filtered) = Cardinality({ i \in 1..Len(props.categories) :
           props.searchQuery = <<>>
             \/ TitleIncludes(props.categories[i].title, props.searchQuery) })
    /\ \A i \in 1..Len(filtered) : \E k \in 1..Len(props.categories) :
           /\ props.categories[k] = filtered[i]
           /\ props.searchQuery = <<>> \/ TitleIncludes(filtered[i].title, props.searchQuery)
    /\ \A i, j \in 1..Len(filtered) : i < j =>
           LET a == filtered[i]
               b == filtered[j]
           IN /\ a.id # b.id
              /\ b.pinned => a.pinned
              /\ a.pinned = b.pinned =>
                    /\ UsedAt(b) # 0 => UsedAt(a) >= UsedAt(b)
                    /\ UsedAt(a) = 0 /\ UsedAt(b) = 0 => TitleNotAfter(a.title, b.title)

\* three categories matching a search, displayed in the reverse of the order
\* they were given in: a pinned one never used, an unpinned used one, an unpinned unused one
C32_Witness ==
    /\ props.searchQuery # <<>>
    /\ Len(filtered) = 3 /\ Len(props.categories) = 3
    /\ \A i \in 1..3 : filtered[i] = props.categories[4 - i]
    /\ filtered[1].pinned /\ UsedAt(filtered[1]) = 0
    /\ ~filtered[2].pinned /\ UsedAt(filtered[2]) # 0
    /\ ~filtered[3].pinned /\ UsedAt(filtered[3]) = 0
    /\ TitleNotAfter(filtered[3].title, filtered[2].title)
    /\ filtered[3].title # filtered[2].title

(***************************************************************************)
(* Claims about the client and the stores together, checked under Spec.    *)
(***************************************************************************)
\* no handler is between two of its steps, no request is on its way, no
\* suggestion is pending
ClientAtRest ==
    /\ ~pendingSuggestion.some
    /\ ~isAssistantTyping
    /\ net = {}
    /\ catFetch = 0
    /\ \A n \in 1..MaxSends : sends[n].pc \in {"idle", "done", "caught"}
    /\ \A d \in 1..Len(decs) : decs[d].pc = "done"

\* C33: with the client at rest, every user message that /api/chat stored
\* carries the same tags in the client's list and in its Message Store row.
C33_ListAndStoreTagsAgree ==
    ClientAtRest =>
       \A n \in 1..nSends :
          sends[n].row # NoId /\ (\E i \in 1..Len(messages) : messages[i].id = ClientMsgId(n))
             => Range(ClientTagsOf(n))
                  = Range(TagsOfColumn(RowOf(dbMessages, sends[n].row).tags))

\* the handler runs that answer user message n: its own send, and the
\* decisions taken on the suggestion that send stored
AnswersTo(n) ==
    {<<"send", n>>} \cup { <<"dec", d>> : d \in { e \in 1..Len(decs) : SendOf(e) = n } }

\* C35: for every user message at most one assistant message is in the
\* conversation and at most one reply has been sent to be persisted, however
\* the decisions on its suggestion interleave.
C35_AtMostOneReplyPerUserMessage ==
    \A n \in 1..nSends :
       /\ Cardinality({ i \in 1..Len(messages) :
                          messages[i].role = "assistant" /\ messages[i].by \in AnswersTo(n) }) <= 1
       /\ Cardinality(UNION { ResponsesBy(by) : by \in AnswersTo(n) }) <= 1

\* C36: in the step in which a decision tags the user message (and so fixes
\* the tag of the reply), the tag is the id of a category of the client's
\* list, and is not the empty string.
C36_ResolverTagsAreListedCategories ==
    [][\A d \in 1..Len(decs') :
          /\ Resolved(d)'
          /\ d <= Len(decs) => ~Resolved(d)
          => /\ decs'[d].categoryId # EmptyString
             /\ decs'[d].categoryId \in Range(categories')
             /\ decs'[d].categoryId \in Range(categories)]_vars

(***************************************************************************)
(* Claims about message and category management, checked under SpecManage. *)
(***************************************************************************)
InList(id) == \E i \in 1..Len(messages) : messages[i].id = id
InStore(id) == \E i \in 1..Len(dbMessages) : dbMessages[i].id = id

\* C34: once the DELETE of a user message sent in this page session has been
\* handled, the message is in neither the list nor the Message Store.
C34_DeletedFromListAndStore ==
    \A e \in served :
       e.req.op = "delete" =>
          \A n \in 1..nSends :
             e.req.id = ClientMsgId(n) =>
                /\ ~InList(ClientMsgId(n))
                /\ sends[n].row # NoId => ~InStore(sends[n].row)

\* C37: renaming a category through handleRenameCategory changes only its
\* title: the step that serves the rename leaves the stored row's pinned flag,
\* icon, accent, description and sort order as they were, and, once no other
\* request for the category is in flight, the category of the client's list
\* and the stored row agree on every field.
CategoryInFlight(id, but) ==
    \E q \in net \ {but} : q.op \in {"category", "pin"} /\ q.id = id

C37_RenameChangesOnlyTitle ==
    [][\A r \in net :
         (r.op = "category" /\ r \notin net' /\ r.id \in DOMAIN dbCategories)
         => LET old == dbCategories[r.id]
                new == dbCategories'[r.id]
            IN /\ new.title = r.body.title
               /\ new.pinned = old.pinned
               /\ new.icon = old.icon
               /\ new.accent = old.accent
               /\ new.description = old.description
               /\ new.sort_order = old.sort_order
               /\ (~CategoryInFlight(r.id, r) /\ r.id \in DOMAIN categoryFields)
                   => categoryFields'[r.id] = ClientCategory(new)]_vars

(***************************************************************************)
(* Claims about the pipelines of the client, checked under Spec.           *)
(***************************************************************************)
\* the executions of handleSendMessage that await a collaborator
SendsInFlight ==
    { n \in 1..MaxSends : sends[n].pc \in {"chat", "complete1", "create", "complete2"} }

\* the resolutions (continueAfterCategorySuggestion) that await the completion
ResolutionsInFlight == { d \in 1..Len(decs) : decs[d].pc = "followup" }

\* C38: at most one message pipeline (a send or a resolution awaiting a
\* collaborator) is in flight at a time, and while one is in flight the
\* assistant-typing indicator is true, so that the composer accepts no new
\* message and two handleSendMessage executions never overlap.
C38_OnePipelineInFlight ==
    /\ Cardinality(SendsInFlight) + Cardinality(ResolutionsInFlight) <= 1
    /\ (SendsInFlight # {} \/ ResolutionsInFlight # {}) => isAssistantTyping

\* C39: the pending fields are set and cleared together: in every state where
\* pendingSuggestion is null and no resolution is in progress, the stored user
\* message id, the original content, the prompt transcript and the tool-call
\* id are all null, the early return of continueAfterCategorySuggestion
\* included.
ResolutionInProgress == \E d \in 1..Len(decs) : decs[d].pc # "done"

C39_PendingFieldsClearedTogether ==
    (~pendingSuggestion.some /\ ~ResolutionInProgress)
    => /\ pendingUserMessageId = NoId
       /\ pendingMessageContent = NoId
       /\ pendingGrokMessagesRef = <<>>
       /\ pendingToolCallIdRef = NoId

\* the tags the list holds for the message with this id (<<>> when it has none)
ListTagsOf(msgs, id) ==
    LET at == { i \in 1..Len(msgs) : msgs[i].id = id }
    IN IF at = {} THEN <<>> ELSE msgs[CHOOSE i \in at : TRUE].tags

\* the user message a request replies to: its own userMessage, or the
\* pendingUserMessageId the resolution holds
RepliedTo(by) == IF by[1] = "send" THEN ClientMsgId(by[2]) ELSE decs[by[2]].cont.pumid

====
